---- MODULE Spec2Model ----
(***************************************************************************)
(* A model of the bibtex scanner (package scanner), of the recursive       *)
(* descent parser (package parser), of the extraction of authors (package *)
(* bibtex) and of the traversal of the syntax tree (package ast) of        *)
(* jschaf/bibtex.                                                          *)
(*                                                                         *)
(* Source text is a sequence of one-character strings.  The scanner and    *)
(* the parser are translated function by function: every Go method is an   *)
(* operator from the receiver's state (a record holding the fields of the  *)
(* Scanner and of the parser that embeds it) to the state after the call.  *)
(* Results of a call are left in the fields tok, lit and pos, which is     *)
(* where parser.next0 stores the results of Scanner.Scan.                  *)
(***************************************************************************)
EXTENDS Integers, Sequences, FiniteSets, TLC

VARIABLES text, mode, p, pc, decls, f, out, walk, file

vars == <<text, mode, p, pc, decls, f, out, walk, file>>

-----------------------------------------------------------------------------
(* Bounds of the model.                                                    *)

\* longest source, in bytes, given to the scanner on its own
MaxLen == 5
\* the scanner is not called again once it has reported this many errors
MaxErrorCount == 8

-----------------------------------------------------------------------------
(* Characters.                                                             *)

\* const eof = -1: the value of Scanner.ch at the end of the source
eof == "EOF"
\* the zero rune: Scanner.endQuoteCh outside a string, and the NUL byte
NUL == "NUL"

LowerLetters ==
    {"a", "b", "c", "d", "e", "f", "g", "h", "i", "j", "k", "l", "m",
     "n", "o", "p", "q", "r", "s", "t", "u", "v", "w", "x", "y", "z"}

UpperLetters ==
    {"A", "B", "C", "D", "E", "F", "G", "H", "I", "J", "K", "L", "M",
     "N", "O", "P", "Q", "R", "S", "T", "U", "V", "W", "X", "Y", "Z"}

\* the character U+0060, which a TLA+ string cannot hold
Backquote == "bq"

Digits == {"0", "1", "2", "3", "4", "5", "6", "7", "8", "9"}

UpperOf ==
    [c \in LowerLetters |->
        CASE c = "a" -> "A" [] c = "b" -> "B" [] c = "c" -> "C" [] c = "d" -> "D"
          [] c = "e" -> "E" [] c = "f" -> "F" [] c = "g" -> "G" [] c = "h" -> "H"
          [] c = "i" -> "I" [] c = "j" -> "J" [] c = "k" -> "K" [] c = "l" -> "L"
          [] c = "m" -> "M" [] c = "n" -> "N" [] c = "o" -> "O" [] c = "p" -> "P"
          [] c = "q" -> "Q" [] c = "r" -> "R" [] c = "s" -> "S" [] c = "t" -> "T"
          [] c = "u" -> "U" [] c = "v" -> "V" [] c = "w" -> "W" [] c = "x" -> "X"
          [] c = "y" -> "Y" [] c = "z" -> "Z"]

\* strings.ToLower / strings.EqualFold on one ASCII character
ToLowerCh(ch) ==
    IF ch \in UpperLetters
    THEN CHOOSE c \in LowerLetters : UpperOf[c] = ch
    ELSE ch

ToLower(str) == [i \in 1..Len(str) |-> ToLowerCh(str[i])]

EqualFold(a, b) == ToLower(a) = ToLower(b)

isDecimal(ch) == ch \in Digits

isLetter(ch) == ch \in LowerLetters \/ ch \in UpperLetters \/ ch = "_"

IsAsciiLetter(ch) == ch \in LowerLetters \/ ch \in UpperLetters

IsName(ch) ==
    \/ ch \in LowerLetters
    \/ ch \in UpperLetters
    \/ ch \in Digits
    \/ ch \in {"_", "-", "/", "!", "$", "&", "*", "+", ".", ":", ";",
               "<", ">", "?", "[", "]", "^", Backquote, "|"}

-----------------------------------------------------------------------------
(* Tokens (package token).                                                 *)

IsLiteral(tok) == tok \in {"Ident", "String", "BraceString", "Number"}

IsStringLiteral(tok) ==
    tok \in {"DoubleQuote", "StringLBrace", "StringRBrace", "StringSpace",
             "StringNBSP", "StringContents", "StringHyphen", "StringMath",
             "StringComma", "StringBackslash", "StringAccent", "StringMacro"}

-----------------------------------------------------------------------------
(* Positions (go/token.File).                                              *)

\* the base of the first file added to a fresh FileSet
base == 1

\* token.NewFile(filename, size): the base is left at its zero value
NewFile(size) == [base |-> 0, size |-> size, lines |-> <<0>>]

\* FileSet.AddFile(filename, b, size) on a file set whose Base() is setBase;
\* a negative b stands for the base of the file set
AddFile(setBase, b, size) ==
    [base |-> IF b < 0 THEN setBase ELSE b, size |-> size, lines |-> <<0>>]

\* File.AddLine
AddLine(fl, offset) ==
    LET i == Len(fl.lines)
    IN IF (i = 0 \/ fl.lines[i] < offset) /\ offset < fl.size
       THEN [fl EXCEPT !.lines = Append(@, offset)]
       ELSE fl

NoPos == 0

\* what a call that panics stands for: no Pos, no Position
PosPanic == -1

PositionPanic == [panic |-> "illegal Pos value"]

\* File.Pos; an offset beyond the size is a panic
FilePos(fl, offset) ==
    IF offset > fl.size THEN PosPanic ELSE fl.base + offset

\* sort.Search(n, func(i) { return lines[i] > offset }): the binary search
\* between the indices i and j (counted from 0)
RECURSIVE Search(_, _, _, _)
Search(lines, offset, i, j) ==
    IF i < j
    THEN LET h == (i + j) \div 2
         IN IF ~(lines[h + 1] > offset) THEN Search(lines, offset, h + 1, j)
            ELSE Search(lines, offset, i, h)
    ELSE i

\* File.Position
Position(fl, ps) ==
    IF ps = NoPos THEN [Offset |-> 0, Line |-> 0, Column |-> 0]
    ELSE IF ps < fl.base \/ ps > fl.base + fl.size THEN PositionPanic
    ELSE LET offset == ps - fl.base
             i == Search(fl.lines, offset, 0, Len(fl.lines)) - 1
         IN [Offset |-> offset, Line |-> i + 1,
             Column |-> offset - fl.lines[i + 1] + 1]

Pos(offset) == base + offset

Offset(ps) == ps - base

\* File.Position(...).Line: one more than the number of line starts recorded
\* by AddLine at or before the offset.  The scanner records the start of a
\* line when it steps over a newline; AddLine ignores a start that is not
\* below the file size.
Line(src, offset) ==
    1 + Cardinality({i \in 1..offset : src[i] = "\n" /\ i < Len(src)})

-----------------------------------------------------------------------------
(* The scanner.                                                            *)

\* The zero value of the parser struct and of the Scanner embedded in it
\* (pmode is parser.mode, mode is Scanner.mode).  Two fields are not fields
\* of the program: ret holds the value returned by the parser function that
\* was called last, and halt records that the call in progress was left by
\* a panic ("panic": a run-time panic, "bailout": the parser's bailout) or
\* never returns ("diverge").
Scanner(src, scanMode) ==
    [src |-> src, mode |-> scanMode,
     ch |-> NUL, offset |-> 0, rdOffset |-> 0, prev |-> "Illegal",
     endQuoteCh |-> NUL, braceDepth |-> 0, ErrorCount |-> 0,
     errors |-> <<>>,
     pos |-> 0, tok |-> "Illegal", lit |-> <<>>,
     pmode |-> {}, syncPos |-> 0, syncCnt |-> 0,
     ret |-> [kind |-> "nil"],
     halt |-> ""]

\* Scanner.error, with the handler the parser installs (p.errors.Add)
error(s, offs, msg) ==
    IF s.halt # "" THEN s
    ELSE [s EXCEPT !.errors = Append(@, [off |-> offs,
                                          line |-> Line(s.src, offs),
                                          msg |-> msg, what |-> {}]),
                   !.ErrorCount = @ + 1]

next(s) ==
    IF s.halt # "" THEN s
    ELSE IF s.rdOffset < Len(s.src)
    THEN LET r == s.src[s.rdOffset + 1]
             s1 == [s EXCEPT !.offset = s.rdOffset]
             s2 == IF r = NUL THEN error(s1, s1.offset, "illegal character NUL")
                   ELSE s1
         IN [s2 EXCEPT !.rdOffset = @ + 1, !.ch = r]
    ELSE [s EXCEPT !.offset = Len(s.src), !.ch = eof]

\* string(s.src[lo:hi]) stored as the literal; a slice with lo > hi is a
\* run-time panic (slice bounds out of range)
slice(s, lo, hi) ==
    IF s.halt # "" THEN s
    ELSE IF lo > hi \/ lo < 0 \/ hi > Len(s.src)
    THEN [s EXCEPT !.halt = "panic"]
    ELSE [s EXCEPT !.lit = SubSeq(s.src, lo + 1, hi)]

ScannerInit(s0, src, scanMode) ==
    next([s0 EXCEPT !.src = src, !.mode = scanMode, !.ch = " ",
                    !.offset = 0, !.rdOffset = 0, !.ErrorCount = 0])

RECURSIVE skipWhitespace(_)
skipWhitespace(s) ==
    IF s.ch \in {" ", "\t", "\n", "\r"} THEN skipWhitespace(next(s)) ELSE s

RECURSIVE scanLetters(_)
scanLetters(s) == IF isLetter(s.ch) THEN scanLetters(next(s)) ELSE s

scanCommand(s) ==
    LET offs == s.offset - 1
        s1 == next(s)
        s2 == IF ~isLetter(s1.ch)
              THEN error(s1, s1.offset, "expected letter after @ for a command")
              ELSE s1
        s3 == scanLetters(s2)
    IN slice(s3, offs, s3.offset)

RECURSIVE scanNames(_)
scanNames(s) == IF IsName(s.ch) THEN scanNames(next(s)) ELSE s

scanIdent(s) ==
    LET offs == s.offset
        s1 == scanNames(s)
    IN slice(s1, offs, s1.offset)

RECURSIVE scanDecimals(_)
scanDecimals(s) == IF isDecimal(s.ch) THEN scanDecimals(next(s)) ELSE s

scanNumber(s) ==
    LET offs == s.offset
        s1 == scanDecimals(s)
    IN slice(s1, offs, s1.offset)

RECURSIVE scanBraceString(_)
RECURSIVE scanBraceStringLoop(_, _)
scanBraceStringLoop(s, offs) ==
    LET ch == s.ch IN
    IF s.halt # "" THEN s
    ELSE IF ch = eof
    THEN error(s, offs, "string literal in braces not terminated")
    ELSE LET s1 == next(s) IN
         IF ch = "}" THEN s1
         ELSE IF ch = "{"
         THEN scanBraceStringLoop(scanBraceString(next(s1)), offs)
         ELSE scanBraceStringLoop(s1, offs)

scanBraceString(s) ==
    LET offs == s.offset
        s1 == scanBraceStringLoop(s, offs)
    IN slice(s1, offs, s1.offset - 1)

RECURSIVE scanStringLoop(_, _)
scanStringLoop(s, offs) ==
    LET ch == s.ch IN
    IF s.halt # "" THEN s
    ELSE IF ch = eof
    THEN error(s, offs, "string literal in double quotes not terminated")
    ELSE LET s1 == next(s) IN
         IF ch = "\"" THEN s1
         ELSE IF ch = "{"
         THEN scanStringLoop(scanBraceString(s1), offs)
         ELSE scanStringLoop(s1, offs)

scanString(s) ==
    LET offs == s.offset
        s1 == scanStringLoop(s, offs)
    IN slice(s1, offs, s1.offset - 1)

RECURSIVE scanTexCommentLoop(_)
scanTexCommentLoop(s) ==
    IF s.ch # "\n" /\ s.ch # eof THEN scanTexCommentLoop(next(s)) ELSE s

scanTexComment(s) ==
    LET offs == s.offset - 1
        s1 == scanTexCommentLoop(s)
    IN slice(s1, offs, s1.offset)

RECURSIVE scanStringMathLoop(_, _)
scanStringMathLoop(s, offs) ==
    IF s.ch # "$"
    THEN IF s.ch = eof \/ s.ch = "\n"
         THEN [slice(error(s, offs, "math in string literal not terminated"),
                     offs - 1, s.offset)
               EXCEPT !.tok = "Illegal"]
         ELSE LET s1 == IF s.ch = "\\" THEN next(s) ELSE s
              IN scanStringMathLoop(next(s1), offs)
    ELSE LET s1 == next(s)
         IN [slice(s1, offs, s1.offset - 1) EXCEPT !.tok = "StringMath"]

scanStringMath(s) == scanStringMathLoop(s, s.offset)

isSpecialStringChar(s, ch) ==
    IF ch = "\""
    THEN s.braceDepth = 0 /\ s.endQuoteCh = "\""
    ELSE ch \in {"$", "{", "}", eof, ",", "~", "\\", "\n", "\r", " ", "\t"}

\* scanSpecialCharStringAccent returns the literal "" with an Illegal token
scanSpecialCharStringAccent(s) ==
    LET offs == s.offset - 1
        s1 == next(s)
        seq == SubSeq(s1.src, offs + 1, s1.offset - 1)
    IN
    IF s1.ch = "{"
    THEN LET s2 == next(s1) IN
         IF ~IsAsciiLetter(s2.ch)
         THEN [error(s2, offs, "expected braced ascii letter after accent sequence")
               EXCEPT !.tok = "Illegal", !.lit = <<>>]
         ELSE LET s3 == next(s2) IN
              IF s3.ch # "}"
              THEN [error(s3, offs, "expected right brace after accent sequence")
                    EXCEPT !.tok = "Illegal", !.lit = <<>>]
              ELSE LET s4 == next(s3)
                   IN [slice(s4, offs, s4.offset) EXCEPT !.tok = "StringAccent"]
    ELSE IF s1.ch = " "
    THEN LET substring == SubSeq(s1.src, offs + 1, s1.offset)
             s2 == next(s1)
         IN IF s2.offset >= Len(s2.src)
            THEN [s2 EXCEPT !.halt = "panic"]   \* s.src[s.offset]: index out of range
            ELSE [next(s2) EXCEPT !.tok = "StringAccent",
                                  !.lit = substring \o <<s2.src[s2.offset + 1]>>]
    ELSE IF ~IsAsciiLetter(s1.ch)
         THEN [error(s1, offs, "expected ascii letter after accent sequence")
               EXCEPT !.tok = "Illegal", !.lit = <<>>]
         ELSE LET s2 == next(s1)
              IN [slice(s2, offs, s2.offset) EXCEPT !.tok = "StringAccent"]

RECURSIVE scanMacroName(_)
scanMacroName(s) ==
    IF ~isSpecialStringChar(s, s.ch) /\ s.ch # NUL
    THEN scanMacroName(next(s))
    ELSE s

scanStringEscape(s) ==
    LET offs == s.offset - 1 IN
    IF s.ch \in {"\\", "$", "&", "%", "{", "}", "_"}
    THEN LET s1 == next(s)
         IN [slice(s1, offs, s1.offset) EXCEPT !.tok = "StringBackslash"]
    ELSE IF s.ch \in {"'", "c", "^", ".", Backquote, "~", "\""}
    THEN scanSpecialCharStringAccent(s)
    ELSE IF s.ch \in {",", ";", "[", "]", "(", ")"}
    THEN LET s1 == next(s)
         IN [slice(s1, offs, s1.offset) EXCEPT !.tok = "StringMacro"]
    ELSE LET lo == s.offset
             s1 == scanMacroName(s)
             name == SubSeq(s1.src, lo + 1, s1.offset)
         IN IF Len(name) = 0
            THEN [slice(error(s1, offs, "expected macro name after backslash, got nothing"),
                        offs, s1.offset - 1)
                  EXCEPT !.tok = "Illegal"]
            ELSE IF \E i \in 1..Len(name) : ~IsAsciiLetter(name[i])
            THEN [slice(error(s1, offs, "expected command name to only contain ascii letters"),
                        offs, s1.offset - 1)
                  EXCEPT !.tok = "Illegal"]
            ELSE [s1 EXCEPT !.tok = "StringMacro", !.lit = name]

RECURSIVE scanStringContentsLoop(_)
scanStringContentsLoop(s) ==
    IF ~isSpecialStringChar(s, s.ch)
    THEN LET s1 == IF s.ch = "\\" THEN next(s) ELSE s
         IN scanStringContentsLoop(next(s1))
    ELSE s

scanStringContents(s) ==
    LET offs == s.offset
        s1 == scanStringContentsLoop(s)
    IN slice(s1, offs, s1.offset)

\* the token literal of an illegal character; string(rune(-1)) is U+FFFD
IllegalLit(ch) == IF ch = eof THEN <<"\\uFFFD">> ELSE <<ch>>

\* case '"' of scanInString
scanInStringQuote(s1) ==
    IF s1.endQuoteCh = "\"" /\ s1.braceDepth = 0
    THEN [s1 EXCEPT !.endQuoteCh = NUL, !.tok = "DoubleQuote"]
    ELSE [s1 EXCEPT !.tok = "StringContents", !.lit = <<"\"">>]

\* a plausible slip: the closing brace ends the string at any depth
scanInStringRBraceAnyDepth(s1) ==
    IF s1.endQuoteCh = "}"
    THEN [s1 EXCEPT !.endQuoteCh = NUL, !.tok = "StringRBrace"]
    ELSE [s1 EXCEPT !.braceDepth = @ - 1, !.tok = "StringRBrace"]

\* case '}' of scanInString
scanInStringRBrace(s1) ==
    IF s1.endQuoteCh = "}" /\ s1.braceDepth = 0
    THEN [s1 EXCEPT !.endQuoteCh = NUL, !.tok = "StringRBrace"]
    ELSE [s1 EXCEPT !.braceDepth = @ - 1, !.tok = "StringRBrace"]

scanInString(s0) ==
    LET s == [s0 EXCEPT !.pos = Pos(s0.offset), !.tok = "Illegal", !.lit = <<>>] IN
    IF s.endQuoteCh = NUL THEN [s EXCEPT !.halt = "panic"]
    ELSE IF ~isSpecialStringChar(s, s.ch)
    THEN [scanStringContents(s) EXCEPT !.tok = "StringContents"]
    ELSE LET ch == s.ch
             s1 == next(s)
         IN
         CASE ch = "$" -> scanStringMath(s1)
           [] ch = "\"" -> scanInStringQuote(s1)
           [] ch = "\\" -> scanStringEscape(s1)
           [] ch = "{" ->
                [s1 EXCEPT !.braceDepth = @ + 1, !.tok = "StringLBrace"]
           [] ch = "}" -> scanInStringRBrace(s1)
           [] ch \in {" ", "\r", "\n", "\t"} ->
                [skipWhitespace(s1) EXCEPT !.tok = "StringSpace"]
           [] ch = "," -> [s1 EXCEPT !.tok = "StringComma", !.lit = <<",">>]
           [] ch = "~" -> [s1 EXCEPT !.tok = "StringNBSP", !.lit = <<"~">>]
           [] OTHER ->
                [error(s1, Offset(s.pos), "illegal character in string")
                 EXCEPT !.tok = "Illegal", !.lit = IllegalLit(ch)]

\* the classification of a command literal in Scan
CommandToken(lit) ==
    IF EqualFold(<<"@", "c", "o", "m", "m", "e", "n", "t">>, lit) THEN "Comment"
    ELSE IF EqualFold(<<"@", "s", "t", "r", "i", "n", "g">>, lit) THEN "Abbrev"
    ELSE IF EqualFold(<<"@", "p", "r", "e", "a", "m", "b", "l", "e">>, lit) THEN "Preamble"
    ELSE "BibEntry"

\* a plausible slip: only '=' is taken to announce a string
ScanLBraceAssignOnly(s1) ==
    IF s1.prev = "Assign"
    THEN IF "ScanStrings" \in s1.mode
         THEN [s1 EXCEPT !.endQuoteCh = "}", !.tok = "StringLBrace"]
         ELSE [scanBraceString(s1) EXCEPT !.tok = "BraceString"]
    ELSE [s1 EXCEPT !.tok = "LBrace"]

\* case '{' of Scan: the heuristic on the previous token
ScanLBrace(s1) ==
    IF s1.prev = "Assign" \/ s1.prev = "LBrace"
    THEN IF "ScanStrings" \in s1.mode
         THEN [s1 EXCEPT !.endQuoteCh = "}", !.tok = "StringLBrace"]
         ELSE [scanBraceString(s1) EXCEPT !.tok = "BraceString"]
    ELSE [s1 EXCEPT !.tok = "LBrace"]

ScanStructural(s0) ==
    LET sw == skipWhitespace(s0)
        s == [sw EXCEPT !.pos = Pos(sw.offset), !.tok = "Illegal", !.lit = <<>>]
        ch == s.ch
        r == IF isDecimal(ch) THEN [scanNumber(s) EXCEPT !.tok = "Number"]
             ELSE IF IsName(ch) THEN [scanIdent(s) EXCEPT !.tok = "Ident"]
             ELSE LET s1 == next(s) IN
                  CASE ch = eof -> [s1 EXCEPT !.tok = "EOF"]
                    [] ch = "\"" ->
                         IF "ScanStrings" \in s1.mode
                         THEN [s1 EXCEPT !.endQuoteCh = "\"", !.tok = "DoubleQuote"]
                         ELSE [scanString(s1) EXCEPT !.tok = "String"]
                    [] ch = "," -> [s1 EXCEPT !.tok = "Comma"]
                    [] ch = "=" -> [s1 EXCEPT !.tok = "Assign"]
                    [] ch = "@" ->
                         LET s2 == scanCommand(s1)
                         IN [s2 EXCEPT !.tok = CommandToken(s2.lit)]
                    [] ch = "{" -> ScanLBrace(s1)
                    [] ch = "}" -> [s1 EXCEPT !.tok = "RBrace"]
                    [] ch = "%" -> [scanTexComment(s1) EXCEPT !.tok = "TexComment"]
                    [] ch = "#" -> [s1 EXCEPT !.tok = "Concat"]
                    [] ch = "(" -> [s1 EXCEPT !.tok = "LParen"]
                    [] ch = ")" -> [s1 EXCEPT !.tok = "RParen"]
                    [] OTHER ->
                         [error(s1, Offset(s.pos), "illegal character")
                          EXCEPT !.tok = "Illegal", !.lit = <<ch>>]
    IN [r EXCEPT !.prev = r.tok]

\* Scan; a call left by a panic returns nothing, so the caller's pos, tok
\* and lit (and the scanner's prev) are as they were before the call.
Scan(s) ==
    LET r == IF s.endQuoteCh = "}" \/ s.endQuoteCh = "\""
             THEN scanInString(s)
             ELSE ScanStructural(s)
    IN IF s.halt # "" THEN s
       ELSE IF r.halt # ""
       THEN [r EXCEPT !.pos = s.pos, !.tok = s.tok, !.lit = s.lit, !.prev = s.prev]
       ELSE r

-----------------------------------------------------------------------------
(* The scanner driven on its own: Scan is called until it returns EOF.     *)

\* the bytes the scanner inputs are made of
ScanAlphabet == {"{", "}", "\"", "=", "a", "\\", "\n", "%"}

RECURSIVE SeqsUpTo(_, _)
SeqsUpTo(S, n) ==
    IF n = 0 THEN {<<>>}
    ELSE LET shorter == SeqsUpTo(S, n - 1)
         IN shorter \cup {Append(q, c) : q \in {x \in shorter : Len(x) = n - 1}, c \in S}

InitScan ==
    /\ text \in SeqsUpTo(ScanAlphabet, MaxLen)
    /\ mode \in {{}, {"ScanStrings"}}
    /\ p = ScannerInit(Scanner(<<>>, {}), text, mode)
    /\ pc = "scan"
    /\ decls = <<>>
    /\ f = [kind |-> "nil"]
    /\ out = <<>>
    /\ walk = [stack |-> <<>>, calls |-> <<>>, done |-> FALSE, err |-> "nil"]
    /\ file = AddFile(1, -1, Len(text))

\* one call of Scanner.Scan by the caller's loop
ScanCall ==
    /\ pc = "scan"
    /\ p.halt = ""
    /\ p.tok # "EOF"
    /\ p.ErrorCount < MaxErrorCount
    /\ p' = Scan(p)
    /\ UNCHANGED <<text, mode, pc, decls, f, out, walk, file>>

NextScan == ScanCall

SpecScan == InitScan /\ [][NextScan]_vars

-----------------------------------------------------------------------------
(* Claims about the scanner, checked under SpecScan.                       *)

\* the scanner is in in-string mode
InString(s) == s.endQuoteCh # NUL

\* the character a structural Scan call dispatches on
ScanChar(s) == skipWhitespace(s).ch

\* C7: every Scan call returns (no panic), a call that does not return EOF
\* consumes at least one byte, and so EOF is returned after finitely many
\* calls.
C7_ScanReturnsAndProgresses ==
    [][pc = "scan" =>
          /\ p'.halt = ""
          /\ p'.tok # "EOF" => p'.offset > p.offset]_vars

\* C8: in in-string mode the string is closed exactly by the delimiter that
\* matches the opener, read at brace depth 0; a nested '{' raises the depth
\* by one, its '}' lowers it by one, neither closes the string; a '"' at
\* depth > 0 or in a brace-opened string is content.
C8_InStringClosing ==
    [][(pc = "scan" /\ InString(p)) =>
          /\ ~InString(p') <=> (p.ch = p.endQuoteCh /\ p.braceDepth = 0)
          /\ p.ch = "{" =>
                /\ p'.braceDepth = p.braceDepth + 1
                /\ p'.endQuoteCh = p.endQuoteCh
          /\ (p.ch = "}" /\ p.braceDepth > 0) =>
                /\ p'.braceDepth = p.braceDepth - 1
                /\ p'.endQuoteCh = p.endQuoteCh
          /\ (p.ch = "\"" /\ (p.braceDepth > 0 \/ p.endQuoteCh = "}")) =>
                /\ p'.tok = "StringContents"
                /\ p'.lit[1] = "\""
                /\ p'.braceDepth = p.braceDepth
                /\ p'.endQuoteCh = p.endQuoteCh]_vars

\* a brace-opened string with a nested group has been closed by its own '}'
C8_Witness ==
    /\ p.src = <<"=", "{", "{", "}", "}">>
    /\ "ScanStrings" \in p.mode
    /\ p.tok = "StringRBrace"
    /\ p.offset = 5
    /\ ~InString(p)

\* C9: in structural mode a '{' is a string opener if and only if the token
\* returned immediately before it was '=' or a structural '{'; after any
\* other token it is the structural LBrace.
C9_BraceHeuristic ==
    [][(pc = "scan" /\ ~InString(p) /\ ScanChar(p) = "{" /\ p'.halt = "") =>
          /\ p'.tok \in {"BraceString", "StringLBrace"}
                <=> p.tok \in {"Assign", "LBrace"}
          /\ p.tok \notin {"Assign", "LBrace"} => p'.tok = "LBrace"]_vars

\* a '{' right after a structural '{' has opened a string
C9_Witness ==
    /\ Len(p.src) >= 2
    /\ p.src[1] = "{"
    /\ p.src[2] = "{"
    /\ p.offset = 2
    /\ p.tok = "StringLBrace"
    /\ p.prev = "StringLBrace"
    /\ InString(p)

\* no byte from offset lo on is the character c
NoneFrom(s, lo, c) == \A i \in (lo + 1)..Len(s.src) : s.src[i] # c

\* the Scan call about to be made reads a string that nothing closes: a
\* quote with no later quote, a string-opening '{' with no later '}', or
\* the end of the input in in-string mode
Unterminated(s) ==
    IF InString(s) THEN s.ch = eof
    ELSE LET w == skipWhitespace(s) IN
         \/ w.ch = "\"" /\ "ScanStrings" \notin s.mode
                        /\ NoneFrom(s, w.offset + 1, "\"")
         \/ w.ch = "{" /\ "ScanStrings" \notin s.mode
                       /\ s.prev \in {"Assign", "LBrace"}
                       /\ NoneFrom(s, w.offset + 1, "}")

NotTerminatedReported(s) ==
    \E i \in 1..Len(s.errors) :
        s.errors[i].msg \in {"string literal in double quotes not terminated",
                             "string literal in braces not terminated"}

\* C10: an unterminated string gives a 'not terminated' diagnostic and one
\* Illegal token that spans to the end of the input, and then EOF.
C10_UnterminatedString ==
    [][(pc = "scan" /\ Unterminated(p)) =>
          /\ p'.halt = ""
          /\ NotTerminatedReported(p')
          /\ p'.tok = "Illegal"
          /\ p'.offset = Len(p.src)
          /\ Scan(p').tok = "EOF"]_vars

-----------------------------------------------------------------------------
(* The parser.  Each parsing function maps the parser to the parser after  *)
(* the call; the node it returns is left in the field ret.                 *)

Nil == [kind |-> "nil"]

\* The parser's methods call one another by name through parserCall:
\* p_expect(q, tok) is the call p.expect(tok) made on the parser q.
RECURSIVE parserCall(_, _, _)

p_next0(q) == parserCall("next0", q, Nil)

p_next(q) == parserCall("next", q, Nil)

p_expect(q, tok) == parserCall("expect", q, tok)

p_expectOptional(q, tok) == parserCall("expectOptional", q, tok)

p_expectOne(q, toks) == parserCall("expectOne", q, toks)

p_advance(q, to) == parserCall("advance", q, to)

p_expectOptionalTagComma(q) == parserCall("expectOptionalTagComma", q, Nil)

p_parseIdent(q) == parserCall("parseIdent", q, Nil)

p_parseBasicLit(q) == parserCall("parseBasicLit", q, Nil)

p_parseMacroURL(q, name) == parserCall("parseMacroURL", q, name)

\* a plausible slip: every text is parsed as if it were outermost
parseTextOutermost(q, depth) == parserCall("parseText", q, 0)

p_parseText(q, depth) == parserCall("parseText", q, depth)

p_parseStringLiteral(q) == parserCall("parseStringLiteral", q, Nil)

p_parseURLStringLiteral(q) == parserCall("parseURLStringLiteral", q, Nil)

p_parseExpr(q) == parserCall("parseExpr", q, Nil)

p_parseTagStmt(q) == parserCall("parseTagStmt", q, Nil)

p_expectCloser(q, open) == parserCall("expectCloser", q, open)

p_parsePreambleDecl(q) == parserCall("parsePreambleDecl", q, Nil)

p_parseAbbrevDecl(q) == parserCall("parseAbbrevDecl", q, Nil)

p_parseBibDecl(q) == parserCall("parseBibDecl", q, Nil)

p_parseDecl(q) == parserCall("parseDecl", q, Nil)

\* parser.next0 (tracing left out)
parserNext0(q) == Scan(q)

\* parser.next: the comment groups before the next non-comment token are
\* consumed (consumeComment, consumeCommentGroup); they end up in
\* parser.comments, leadComment and lineComment only
RECURSIVE parserNext(_)
parserNext(q) ==
    LET r == p_next0(q)
    IN IF r.halt = "" /\ r.tok = "TexComment" THEN parserNext(r) ELSE r

\* parser.init
init(q, src, m) ==
    LET sm == (IF "ParseComments" \in m THEN {"ScanComments"} ELSE {})
              \cup (IF "ParseStrings" \in m THEN {"ScanStrings"} ELSE {})
    IN p_next([ScannerInit(q, src, sm) EXCEPT !.pmode = m])

\* parser.error
parserError(q, ps, msg, what) ==
    LET n == Len(q.errors)
        line == Line(q.src, Offset(ps))
        added == [q EXCEPT !.errors = Append(@, [off |-> Offset(ps),
                                                 line |-> line,
                                                 msg |-> msg, what |-> what])]
    IN IF q.halt # "" THEN q
       ELSE IF "AllErrors" \in q.pmode THEN added
       ELSE IF n > 0 /\ q.errors[n].line = line THEN q
       ELSE IF n > 10 THEN [q EXCEPT !.halt = "bailout"]
       ELSE added

\* parser.errorExpected with the message "expected " + msg where msg quotes
\* the tokens toks; the ", found ..." suffix of the message is left out
errorExpected(q, ps, msg, toks) == parserError(q, ps, msg, toks)

\* parser.expect; ret is the position returned
expect(q, tok) ==
    LET q1 == IF q.tok # tok THEN errorExpected(q, q.pos, "expected", {tok}) ELSE q
    IN [p_next(q1) EXCEPT !.ret = q.pos]

expectOptional(q, tok) ==
    IF q.tok # tok THEN [q EXCEPT !.ret = q.pos]
    ELSE [p_next(q) EXCEPT !.ret = q.pos]

\* parser.expectOne; ret is the token returned
expectOne(q, toks) ==
    IF q.tok \in toks THEN [p_next(q) EXCEPT !.ret = q.tok]
    ELSE [p_next(errorExpected(q, q.pos, "expected one of", toks))
             EXCEPT !.ret = "Illegal"]

stmtStart == {"Abbrev", "Comment", "Preamble", "BibEntry", "Ident"}

entryStart == {"Abbrev", "Comment", "Preamble", "BibEntry"}

\* the scanner is at the end of the source, so every further token is the
\* one just returned: a loop that only a different token ends never ends
Stalled(q, r) == r.halt = "" /\ q.ch = eof /\ r.tok = q.tok

\* parser.advance
RECURSIVE advance(_, _)
advance(q, to) ==
    IF q.halt # "" \/ q.tok = "EOF" THEN q
    ELSE IF q.tok \in to /\ q.pos = q.syncPos /\ q.syncCnt < 10
    THEN [q EXCEPT !.syncCnt = @ + 1]
    ELSE IF q.tok \in to /\ q.pos > q.syncPos
    THEN [q EXCEPT !.syncPos = q.pos, !.syncCnt = 0]
    ELSE LET r == p_next(q)
         IN IF Stalled(q, r) THEN [r EXCEPT !.halt = "diverge"]
            ELSE advance(r, to)

expectOptionalTagComma(q) ==
    IF q.tok \in {"RBrace", "RParen"} THEN q
    ELSE IF q.tok = "Comma" THEN p_next(q)
    ELSE p_advance(errorExpected(q, q.pos, "expected", {"Comma"}), stmtStart)

\* a check of tag names that accepts every name
isValidTagNameAlways(key) == TRUE

isValidTagName(key) == IsAsciiLetter(key.Name[1])

\* parser.parseIdent
parseIdent(q) ==
    IF q.tok \in {"Ident", "Number"}
    THEN [p_next(q) EXCEPT
             !.ret = [kind |-> "Ident", NamePos |-> q.pos, Name |-> q.lit]]
    ELSE [p_expect(q, "Ident") EXCEPT
             !.ret = [kind |-> "Ident", NamePos |-> q.pos, Name |-> <<"_">>]]

\* parser.parseBasicLit; in the default case no node is returned
parseBasicLit(q) ==
    IF q.tok \in {"BraceString", "String"}
    THEN [p_next(q) EXCEPT
             !.ret = [kind |-> "UnparsedText", ValuePos |-> q.pos,
                      Type |-> q.tok, Value |-> q.lit]]
    ELSE IF q.tok = "Number"
    THEN [p_next(q) EXCEPT
             !.ret = [kind |-> "Number", ValuePos |-> q.pos, Value |-> q.lit]]
    ELSE IF q.tok = "Ident" THEN p_parseIdent(q)
    ELSE [errorExpected(q, q.pos, "expected literal: number or string", {})
             EXCEPT !.ret = Nil]

\* parser.parseMacroURL
RECURSIVE parseMacroURLLoop(_, _)
parseMacroURLLoop(q, sb) ==
    IF q.halt # "" \/ q.tok \in {"StringRBrace", "StringSpace"}
    THEN [q EXCEPT !.ret = sb]
    ELSE LET r == p_next(q)
         IN IF Stalled(q, r) THEN [r EXCEPT !.halt = "diverge"]
            ELSE parseMacroURLLoop(r, sb \o q.lit)

parseMacroURL(q, name) ==
    LET q1 == parseMacroURLLoop(p_expect(p_next(q), "StringLBrace"), <<>>)
        values == <<[kind |-> "Text", ValuePos |-> q1.pos, Value |-> q1.ret]>>
        q2 == IF q1.tok = "StringSpace" THEN p_next(q1) ELSE q1
        q3 == IF q2.tok # "StringRBrace"
              THEN errorExpected(q2, q2.pos, "expected", {"StringRBrace"})
              ELSE q2
    IN [q3 EXCEPT !.ret = [kind |-> "TextMacro", Cmd |-> q.pos, Name |-> name,
                           Values |-> values, RBrace |-> q2.pos]]

\* the node parser.parseText makes of a single token
TextNode(q) ==
    CASE q.tok = "StringMath" ->
           [kind |-> "TextMath", ValuePos |-> q.pos, Value |-> q.lit]
      [] q.tok = "StringHyphen" -> [kind |-> "TextHyphen", ValuePos |-> q.pos]
      [] q.tok = "StringNBSP" -> [kind |-> "TextNBSP", ValuePos |-> q.pos]
      [] q.tok = "StringContents" ->
           [kind |-> "Text", ValuePos |-> q.pos, Value |-> q.lit]
      [] q.tok = "StringSpace" ->
           [kind |-> "TextSpace", ValuePos |-> q.pos, Value |-> q.lit]
      [] q.tok = "StringComma" -> [kind |-> "TextComma", ValuePos |-> q.pos]
      [] q.tok = "StringMacro" ->
           [kind |-> "TextMacro", Cmd |-> q.pos, Name |-> q.lit]
      [] q.tok = "StringBackslash" ->
           [kind |-> "TextEscaped", ValuePos |-> q.pos, Value |-> Tail(q.lit)]
      [] q.tok = "Illegal" -> [kind |-> "BadExpr", From |-> q.pos, To |-> q.pos]
      [] OTHER -> Nil

\* parser.parseText; parseTextLoop is the loop of its recursive case, which
\* leaves either the values collected or the BadExpr the function returns
RECURSIVE parseTextLoop(_, _, _)
parseTextLoop(q, depth, values) ==
    IF q.halt # "" \/ q.tok = "StringRBrace"
    THEN [q EXCEPT !.ret = [kind |-> "values", values |-> values]]
    ELSE LET r == p_parseText(q, depth + 1)
         IN IF r.ret.kind = "BadExpr" THEN [p_next(r) EXCEPT !.ret = r.ret]
            ELSE IF Stalled(q, r) THEN [r EXCEPT !.halt = "diverge"]
            ELSE parseTextLoop(r, depth, Append(values, r.ret))

parseText(q, depth) ==
    IF q.halt # "" THEN q
    ELSE IF q.tok = "StringLBrace"
    THEN LET q1 == parseTextLoop(p_next(q), depth, <<>>)
         IN IF q1.halt # "" \/ q1.ret.kind = "BadExpr" THEN q1
            ELSE LET q2 == p_next(q1)
                 IN [q2 EXCEPT !.ret = [kind |-> "ParsedText", Depth |-> depth,
                                        Opener |-> q.pos, Delim |-> "Brace",
                                        Values |-> q1.ret.values,
                                        Closer |-> q2.pos]]
    ELSE IF q.tok = "StringMacro" /\ q.lit \in {<<"u", "r", "l">>, <<"h", "r", "e", "f">>}
    THEN LET q1 == p_parseMacroURL(q, q.lit)
         IN [p_next(q1) EXCEPT !.ret = q1.ret]
    ELSE IF TextNode(q) # Nil
    THEN [p_next(q) EXCEPT !.ret = TextNode(q)]
    ELSE [p_next(parserError(q, q.pos, "unknown text type", {q.tok}))
             EXCEPT !.ret = Nil]

\* parser.parseStringLiteral
RECURSIVE parseStringLiteralLoop(_, _, _)
parseStringLiteralLoop(q, ps, values) ==
    IF q.halt # "" \/ q.tok = "DoubleQuote"
    THEN [q EXCEPT !.ret = [kind |-> "values", values |-> values]]
    ELSE IF q.tok = "EOF"
    THEN [errorExpected(q, q.pos, "expected double quote", {})
             EXCEPT !.ret = [kind |-> "BadExpr", From |-> ps, To |-> q.pos]]
    ELSE LET r == p_parseText(q, 1)
         IN IF Stalled(q, r) THEN [r EXCEPT !.halt = "diverge"]
            ELSE parseStringLiteralLoop(r, ps, Append(values, r.ret))

parseStringLiteral(q) ==
    IF q.tok = "DoubleQuote"
    THEN LET q1 == parseStringLiteralLoop(p_next(q), q.pos, <<>>)
         IN IF q1.halt # "" \/ q1.ret.kind = "BadExpr" THEN q1
            ELSE LET q2 == p_next(q1)
                 IN [q2 EXCEPT !.ret = [kind |-> "ParsedText", Depth |-> 0,
                                        Opener |-> q.pos, Delim |-> "Quote",
                                        Values |-> q1.ret.values,
                                        Closer |-> q2.pos]]
    ELSE IF q.tok = "StringLBrace" THEN p_parseText(q, 0)
    ELSE LET q1 == p_advance(errorExpected(q, q.pos, "expected string literal", {}),
                           stmtStart)
         IN [q1 EXCEPT !.ret = [kind |-> "BadExpr", From |-> q.pos, To |-> q1.pos]]

\* parser.parseURLStringLiteral
RECURSIVE parseURLStringLiteralLoop(_, _, _)
parseURLStringLiteralLoop(q, ps, sb) ==
    IF q.halt # "" \/ q.tok = "DoubleQuote"
    THEN [q EXCEPT !.ret = [kind |-> "Text", ValuePos |-> ps, Value |-> sb]]
    ELSE IF q.tok = "EOF"
    THEN [errorExpected(q, q.pos, "expected double quote", {})
             EXCEPT !.ret = [kind |-> "BadExpr", From |-> ps, To |-> q.pos]]
    ELSE LET r == p_next(q)
         IN IF Stalled(q, r) THEN [r EXCEPT !.halt = "diverge"]
            ELSE parseURLStringLiteralLoop(r, ps, sb \o q.lit)

parseURLStringLiteral(q) ==
    IF q.tok = "DoubleQuote"
    THEN LET q1 == p_next(q)
         IN IF q1.tok = "StringMacro"
            THEN LET q2 == p_parseMacroURL(q1, q1.lit)
                     q3 == p_expect(p_expect(q2, "StringRBrace"), "DoubleQuote")
                 IN [q3 EXCEPT !.ret = [kind |-> "ParsedText", Depth |-> 0,
                                        Opener |-> q.pos, Delim |-> "Quote",
                                        Values |-> <<q2.ret>>,
                                        Closer |-> q3.pos]]
            ELSE LET q2 == parseURLStringLiteralLoop(q1, q.pos, <<>>)
                 IN IF q2.halt # "" \/ q2.ret.kind = "BadExpr" THEN q2
                    ELSE [p_expect(q2, "DoubleQuote") EXCEPT !.ret = q2.ret]
    ELSE IF q.tok = "StringLBrace" THEN p_parseText(q, 0)
    ELSE LET q1 == p_advance(errorExpected(q, q.pos, "expected string literal", {}),
                           stmtStart)
         IN [q1 EXCEPT !.ret = [kind |-> "BadExpr", From |-> q.pos, To |-> q1.pos]]

\* a ConcatExpr whose operands are exchanged
ConcatExprSwapped(x, opPos, y) ==
    [kind |-> "ConcatExpr", X |-> y, OpPos |-> opPos, Y |-> x]

\* the ConcatExpr built by parseExpr
ConcatExpr(x, opPos, y) ==
    [kind |-> "ConcatExpr", X |-> x, OpPos |-> opPos, Y |-> y]

\* parser.parseExpr
parseExpr(q) ==
    IF q.halt # "" THEN q
    ELSE IF IsLiteral(q.tok)
    THEN LET q1 == p_parseBasicLit(q)
         IN IF q1.tok = "Concat"
            THEN LET q2 == p_next(q1)
                     q3 == p_parseExpr(q2)
                 IN [q3 EXCEPT !.ret = ConcatExpr(q1.ret, q2.pos, q3.ret)]
            ELSE q1
    ELSE IF IsStringLiteral(q.tok) THEN p_parseStringLiteral(q)
    ELSE LET q1 == errorExpected(q, q.pos, "expected literal: number or string", {})
         IN [p_next(q1) EXCEPT
                !.ret = [kind |-> "BadExpr", From |-> q.pos, To |-> q1.pos]]

\* a TagStmt whose Name keeps the case of the source
TagStmtRawCase(key, val) ==
    [kind |-> "TagStmt", NamePos |-> key.NamePos, Name |-> key.Name,
     RawName |-> key.Name, Value |-> val]

\* the TagStmt built by parseTagStmt and by parseBibDecl (Doc left out)
TagStmt(key, val) ==
    [kind |-> "TagStmt", NamePos |-> key.NamePos, Name |-> ToLower(key.Name),
     RawName |-> key.Name, Value |-> val]

\* parser.parseTagStmt
parseTagStmt(q) ==
    LET q1 == p_parseIdent(q)
        q2 == p_parseExpr(p_expect(q1, "Assign"))
    IN [p_expectOptionalTagComma(q2) EXCEPT !.ret = TagStmt(q1.ret, q2.ret)]

\* a closer that is consumed whatever it is
expectCloserUnchecked(q, open) == [p_next(q) EXCEPT !.ret = q.pos]

\* parser.expectCloser; ret is the position returned
expectCloser(q, open) ==
    IF open = "LBrace" THEN p_expect(q, "RBrace")
    ELSE IF open = "LParen" THEN p_expect(q, "RParen")
    ELSE [parserError(q, q.pos, "no closing delimiter for", {open})
             EXCEPT !.ret = q.pos]

\* parser.parsePreambleDecl
parsePreambleDecl(q) ==
    LET q1 == p_expectOne(p_expect(q, "Preamble"), {"LBrace", "LParen"})
        q2 == p_parseExpr(q1)
        q3 == p_expectCloser(q2, q1.ret)
    IN [q3 EXCEPT !.ret = [kind |-> "PreambleDecl", Entry |-> q.pos,
                           Text |-> q2.ret, RBrace |-> q3.ret]]

\* parser.parseAbbrevDecl
parseAbbrevDecl(q) ==
    LET q1 == p_expectOne(p_expect(q, "Abbrev"), {"LBrace", "LParen"})
        q2 == p_parseTagStmt(q1)
        q3 == p_expectCloser(q2, q1.ret)
    IN [q3 EXCEPT !.ret = [kind |-> "AbbrevDecl", Entry |-> q.pos,
                           Tag |-> q2.ret, RBrace |-> q3.ret]]

HasPrefix(s, prefix) ==
    Len(s) >= Len(prefix) /\ SubSeq(s, 1, Len(prefix)) = prefix

RECURSIVE JoinValues(_)
JoinValues(values) ==
    IF values = <<>> THEN <<>> ELSE Head(values).Value \o JoinValues(Tail(values))

\* fixUpFields
fixUpFields(tag, val) ==
    IF /\ tag = <<"u", "r", "l">>
       /\ val.kind = "ParsedText"
       /\ Len(val.Values) # 0
       /\ val.Values[1].kind = "Text"
       /\ HasPrefix(val.Values[1].Value, <<"h", "t", "t", "p">>)
       /\ \A i \in 1..Len(val.Values) : val.Values[i].kind = "Text"
    THEN [val EXCEPT !.Values = <<[kind |-> "Text",
                                   ValuePos |-> val.Values[1].ValuePos,
                                   Value |-> JoinValues(val.Values)]>>]
    ELSE val

\* the loop of parser.parseBibDecl over the keys and tags of the entry; acc
\* holds bibKey, extraKeys and tags
RECURSIVE parseBibDeclLoop(_, _)
parseBibDeclLoop(q, acc) ==
    IF q.halt # "" \/ q.tok \notin {"Ident", "Number"}
    THEN [q EXCEPT !.ret = acc]
    ELSE LET q1 == p_parseIdent(q)
             key == q1.ret
             isTag == q1.tok = "Assign"
             q2 == IF ~isValidTagName(key)
                   THEN parserError(q1, key.NamePos,
                                    "tag keys must not start with a number", {})
                   ELSE q1
             q3 == p_next(q2)
             q4 == IF key.Name = <<"u", "r", "l">> /\ IsStringLiteral(q3.tok)
                   THEN p_parseURLStringLiteral(q3)
                   ELSE p_parseExpr(q3)
             q5 == IF isTag THEN q4 ELSE q1
             acc1 == IF isTag
                     THEN [acc EXCEPT !.tags =
                              Append(@, TagStmt(key, fixUpFields(key.Name, q4.ret)))]
                     ELSE acc
         IN IF q5.halt = "" /\ q5.tok = "Comma"
            THEN parseBibDeclLoop(p_next(q5),
                    IF acc1.bibKey = Nil
                    THEN [acc1 EXCEPT !.bibKey = key]
                    ELSE [acc1 EXCEPT !.extraKeys = Append(@, key)])
            ELSE parseBibDeclLoop(q5, acc1)

\* parser.parseBibDecl
parseBibDecl(q) ==
    LET entryType == Tail(q.lit)
        q1 == p_expectOne(p_expect(q, "BibEntry"), {"LBrace", "LParen"})
        q2 == parseBibDeclLoop(q1, [bibKey |-> Nil, extraKeys |-> <<>>,
                                    tags |-> <<>>])
        q3 == p_expectCloser(q2, q1.ret)
        q4 == p_expectOptional(q3, "Comma")
    IN [q4 EXCEPT !.ret = [kind |-> "BibDecl", Type |-> entryType,
                           Entry |-> q.pos, Key |-> q2.ret.bibKey,
                           ExtraKeys |-> q2.ret.extraKeys,
                           Tags |-> q2.ret.tags, RBrace |-> q3.ret]]

\* parser.parseDecl
parseDecl(q) ==
    IF q.tok = "Preamble" THEN p_parsePreambleDecl(q)
    ELSE IF q.tok = "Abbrev" THEN p_parseAbbrevDecl(q)
    ELSE IF q.tok = "BibEntry" THEN p_parseBibDecl(q)
    ELSE LET q1 == p_advance(errorExpected(q, q.pos, "expected entry", {}), entryStart)
         IN [q1 EXCEPT !.ret = [kind |-> "BadDecl", From |-> q.pos, To |-> q1.pos]]

\* the method named method called on the parser q with the argument a; a
\* parser that has been left by a panic or does not return calls nothing
parserCall(method, q, a) ==
    IF q.halt # "" THEN q
    ELSE CASE method = "next0" -> parserNext0(q)
           [] method = "next" -> parserNext(q)
           [] method = "expect" -> expect(q, a)
           [] method = "expectOptional" -> expectOptional(q, a)
           [] method = "expectOne" -> expectOne(q, a)
           [] method = "advance" -> advance(q, a)
           [] method = "expectOptionalTagComma" -> expectOptionalTagComma(q)
           [] method = "parseIdent" -> parseIdent(q)
           [] method = "parseBasicLit" -> parseBasicLit(q)
           [] method = "parseMacroURL" -> parseMacroURL(q, a)
           [] method = "parseText" -> parseText(q, a)
           [] method = "parseStringLiteral" -> parseStringLiteral(q)
           [] method = "parseURLStringLiteral" -> parseURLStringLiteral(q)
           [] method = "parseExpr" -> parseExpr(q)
           [] method = "parseTagStmt" -> parseTagStmt(q)
           [] method = "expectCloser" -> expectCloser(q, a)
           [] method = "parsePreambleDecl" -> parsePreambleDecl(q)
           [] method = "parseAbbrevDecl" -> parseAbbrevDecl(q)
           [] method = "parseBibDecl" -> parseBibDecl(q)
           [] method = "parseDecl" -> parseDecl(q)

\* ErrorList.Sort: by position; diagnostics at one position keep the order
\* they were recorded in (the program orders those by message text)
RECURSIVE ErrorListInsert(_, _)
ErrorListInsert(sorted, e) ==
    IF sorted = <<>> THEN <<e>>
    ELSE IF sorted[Len(sorted)].off <= e.off THEN Append(sorted, e)
    ELSE Append(ErrorListInsert(SubSeq(sorted, 1, Len(sorted) - 1), e),
                sorted[Len(sorted)])

RECURSIVE ErrorListSort(_)
ErrorListSort(list) ==
    IF list = <<>> THEN <<>>
    ELSE ErrorListInsert(ErrorListSort(SubSeq(list, 1, Len(list) - 1)),
                         list[Len(list)])

\* the ast.File returned by parseFile; nothing is ever inserted in the scope
\* and no identifier is ever recorded as unresolved
File(entries) ==
    [kind |-> "File", Entries |-> entries, Scope |-> {}, Unresolved |-> <<>>]

\* where the call of ParseFile goes on after a step that left the parser q:
\* a bailout is recovered by the deferred function, any other panic is
\* raised again
Continue(q, pcNext) ==
    CASE q.halt = "" -> pcNext
      [] q.halt = "bailout" -> "return"
      [] q.halt = "panic" -> "panic"
      [] q.halt = "diverge" -> "diverge"

-----------------------------------------------------------------------------
(* ParseFile, one step per action: p.init, the start of parseFile, one     *)
(* declaration of its loop, its end, and the deferred function.            *)

\* ParseFile: p.init(fset, filename, text, mode)
ParserInit ==
    /\ pc = "ParseFile"
    /\ p' = init(p, text, mode)
    /\ pc' = Continue(p', "parseFile")
    /\ UNCHANGED <<text, mode, decls, f, out, walk, file>>

\* parseFile up to its loop: nil is returned if scanning the first token
\* reported an error
ParseFileBegin ==
    /\ pc = "parseFile"
    /\ pc' = IF Len(p.errors) # 0 THEN "return" ELSE "decls"
    /\ UNCHANGED <<text, mode, p, decls, f, out, walk, file>>

\* one iteration of the loop of parseFile
ParseDeclStep ==
    /\ pc = "decls"
    /\ p.tok \notin {"EOF", "Illegal"}
    /\ p' = p_parseDecl(p)
    /\ decls' = IF p'.halt = "" THEN Append(decls, p'.ret) ELSE decls
    /\ pc' = Continue(p', "decls")
    /\ UNCHANGED <<text, mode, f, out, walk, file>>

\* the end of parseFile
ParseFileEnd ==
    /\ pc = "decls"
    /\ p.tok \in {"EOF", "Illegal"}
    /\ f' = File(decls)
    /\ pc' = "return"
    /\ UNCHANGED <<text, mode, p, decls, out, walk, file>>

\* the deferred function of ParseFile
ParseFileDeferred ==
    /\ pc = "return"
    /\ f' = IF f = Nil THEN File(<<>>) ELSE f
    /\ p' = [p EXCEPT !.errors = ErrorListSort(@)]
    /\ pc' = "done"
    /\ UNCHANGED <<text, mode, decls, out, walk, file>>

NextParse ==
    \/ ParserInit
    \/ ParseFileBegin
    \/ ParseDeclStep
    \/ ParseFileEnd
    \/ ParseFileDeferred

\* the state in which ParseFile is called on the source src with the mode m
ParseFileCalled(src, m) ==
    /\ text = src
    /\ mode = m
    /\ p = Scanner(<<>>, {})
    /\ pc = "ParseFile"
    /\ decls = <<>>
    /\ f = Nil
    /\ out = <<>>
    /\ walk = [stack |-> <<>>, calls |-> <<>>, done |-> FALSE, err |-> "nil"]
    /\ file = AddFile(1, -1, Len(text))

-----------------------------------------------------------------------------
(* ParseFile called on one declaration, well-formed or not, which may be   *)
(* followed by a well-formed entry on the next line.  The body of the      *)
(* declaration is any sequence of lexemes, or, for an entry, a sequence of *)
(* keys and tags separated by commas.                                      *)

\* the most lexemes between the opening and the closing delimiter
MaxItems == 3

\* the most keys and tags of an entry
MaxStmts == 3

EntryCommand == <<"@", "a", "b">>

AbbrevCommand == <<"@", "s", "t", "r", "i", "n", "g">>

PreambleCommand == <<"@", "p", "r", "e", "a", "m", "b", "l", "e">>

Commands == {EntryCommand, AbbrevCommand, PreambleCommand}

Openers == {<<"{">>, <<"(">>}

Closers == {<<"}">>, <<")">>}

IdentLexeme == <<"A", "b">>

NumberLexeme == <<"1">>

QuotedLexeme == <<"\"", "x", "\"">>

BracedLexeme == <<"{", "x", "}">>

BodyItems == {IdentLexeme, NumberLexeme, <<",">>, <<"=">>, BracedLexeme}

\* a key, or a tag with a letter or a digit name
KeyStmts == {<<IdentLexeme>>, <<NumberLexeme>>}

LetterTagStmts ==
    {<<IdentLexeme, <<"=">>, NumberLexeme>>, <<IdentLexeme, <<"=">>, QuotedLexeme>>}

DigitTagStmts == {<<NumberLexeme, <<"=">>, BracedLexeme>>}

Stmts == KeyStmts \cup LetterTagStmts \cup DigitTagStmts

\* the lexemes of the statements stmts, a comma between two of them
RECURSIVE Separated(_)
Separated(stmts) ==
    IF stmts = <<>> THEN <<>>
    ELSE IF Len(stmts) = 1 THEN Head(stmts)
    ELSE Head(stmts) \o <<<<",">>>> \o Separated(Tail(stmts))

\* the bodies made of the sequences of statements seqs, with and without a
\* comma after the last statement
BodiesOf(seqs) ==
    LET bodies == {Separated(stmts) : stmts \in seqs}
    IN bodies \cup {Append(b, <<",">>) : b \in bodies \ {<<>>}}

\* the bodies made of at most n statements of the set S
StmtBodies(S, n) == BodiesOf(SeqsUpTo(S, n))

\* a well-formed entry on a line of its own
Follower == <<"\n", "@", "c", "d", "{", "j", ",", "}">>

\* what follows the first declaration: nothing, the entry, or an illegal
\* character and the entry
Tails == {<<>>, Follower, <<" ", "~">> \o Follower}

\* the lexemes of a body, each after a space
RECURSIVE Join(_)
Join(items) ==
    IF items = <<>> THEN <<>> ELSE <<" ">> \o Head(items) \o Join(Tail(items))

DeclText(command, opener, items, closer) ==
    command \o opener \o Join(items) \o <<" ">> \o closer

Bodies(command) ==
    SeqsUpTo(BodyItems, MaxItems)
        \cup (IF command = EntryCommand THEN StmtBodies(Stmts, MaxStmts) ELSE {})

InitParse ==
    \E command \in Commands, opener \in Openers, closer \in Closers,
       tail \in Tails, m \in {{}, {"ParseStrings"}} :
       \E items \in Bodies(command) :
          ParseFileCalled(DeclText(command, opener, items, closer) \o tail, m)

SpecParse == InitParse /\ [][NextParse]_vars

-----------------------------------------------------------------------------
(* ParseFile called on a file of lines: well-formed entries, then entry    *)
(* types on their own, then well-formed entries again.                     *)

\* the most well-formed entries before, and after, the malformed lines
MaxGood == 2

\* the most malformed lines
MaxBad == 13

GoodLine == <<"@", "a", "b", "{", "k", ",", "}", "\n">>

BadLine == <<"@", "a", "b", "\n">>

RECURSIVE Repeat(_, _)
Repeat(line, n) == IF n = 0 THEN <<>> ELSE line \o Repeat(line, n - 1)

InitCap ==
    \E before \in 0..MaxGood, bad \in 0..MaxBad, after \in 0..MaxGood,
       m \in {{}, {"AllErrors"}} :
          ParseFileCalled(Repeat(GoodLine, before) \o Repeat(BadLine, bad)
                             \o Repeat(GoodLine, after), m)

SpecCap == InitCap /\ [][NextParse]_vars

-----------------------------------------------------------------------------
(* Claims about the parser, checked under SpecParse and SpecCap.           *)

\* the tokens the parser reads from the source src in the mode m
RECURSIVE TokensFrom(_)
TokensFrom(q) ==
    IF q.halt # "" \/ q.tok = "EOF" THEN <<>>
    ELSE LET r == p_next(q)
         IN <<[tok |-> q.tok, pos |-> q.pos]>>
               \o (IF Stalled(q, r) THEN <<>> ELSE TokensFrom(r))

Tokens(src, m) == TokensFrom(init(Scanner(<<>>, {}), src, m))

RECURSIVE Ascending(_)
Ascending(S) ==
    IF S = {} THEN <<>>
    ELSE LET least == CHOOSE x \in S : \A y \in S : x <= y
         IN <<least>> \o Ascending(S \ {least})

\* the positions of the identifiers and numbers before the position closer
\* that are not followed by '=' and are not the operand of '=' or '#'
KeyTokens(toks, closer) ==
    Ascending({toks[i].pos : i \in
        {j \in 2..(Len(toks) - 1) :
            /\ toks[j].tok \in {"Ident", "Number"}
            /\ toks[j].pos < closer
            /\ toks[j + 1].tok # "Assign"
            /\ toks[j - 1].tok \notin {"Assign", "Concat"}}})

\* the positions of Key and ExtraKeys of the entry d, in this order
KeyPositions(d) ==
    (IF d.Key.kind = "nil" THEN <<>> ELSE <<d.Key.NamePos>>)
        \o [i \in 1..Len(d.ExtraKeys) |-> d.ExtraKeys[i].NamePos]

\* C1: in the body of an entry that is parsed without a diagnostic, Key and
\* ExtraKeys are, in source order, exactly the identifiers and numbers that
\* are not followed by '=' (and are not a value): no tag name is among them
\* and a key right before the closing delimiter is.
C1_CitationKeys ==
    (/\ pc = "done"
     /\ p.errors = <<>>
     /\ f.Entries # <<>>
     /\ f.Entries[1].kind = "BibDecl")
        => KeyPositions(f.Entries[1])
              = KeyTokens(Tokens(text, mode), f.Entries[1].RBrace)

\* the tags of the declaration d
TagStmtsOf(d) ==
    IF d.kind = "BibDecl" THEN d.Tags
    ELSE IF d.kind = "AbbrevDecl" THEN <<d.Tag>>
    ELSE <<>>

\* the name of the tag is what the source holds at the position of the tag
AsWritten(tag) ==
    /\ Offset(tag.NamePos) + Len(tag.RawName) <= Len(text)
    /\ SubSeq(text, Offset(tag.NamePos) + 1,
              Offset(tag.NamePos) + Len(tag.RawName)) = tag.RawName

\* no identifier and no number starts at the position ps of the source
NoNameAt(ps) ==
    \/ Offset(ps) >= Len(text)
    \/ ~(isDecimal(text[Offset(ps) + 1]) \/ IsName(text[Offset(ps) + 1]))

HasFollower(src) ==
    /\ Len(src) >= Len(Follower)
    /\ SubSeq(src, Len(src) - Len(Follower) + 1, Len(src)) = Follower

WithoutFollower(src) == SubSeq(src, 1, Len(src) - Len(Follower))

\* d is the declaration of the entry Follower
IsFollowerDecl(d) ==
    /\ d.kind = "BibDecl"
    /\ d.Type = <<"c", "d">>
    /\ d.Key.kind = "Ident"
    /\ d.Key.Name = <<"j">>
    /\ d.ExtraKeys = <<>>
    /\ d.Tags = <<>>

\* C3: whatever the first declaration, malformed or followed by an illegal
\* character, the well-formed entry after it is the last of File.Entries.
C3_LaterDeclarationKept ==
    (pc = "done" /\ HasFollower(text))
        => /\ f.Entries # <<>>
           /\ IsFollowerDecl(f.Entries[Len(f.Entries)])

\* C4: when ParseFile returns diagnostics, File.Entries holds every
\* declaration that was parsed.
C4_PartialFile ==
    (pc = "done" /\ p.errors # <<>>)
        => /\ f.kind = "File"
           /\ f.Entries = decls

WrongCloser(opener) == IF opener = <<"{">> THEN <<")">> ELSE <<"}">>

RightCloser(opener) == IF opener = <<"{">> THEN <<"}">> ELSE <<")">>

\* the bodies that make a declaration parsed without a diagnostic when the
\* closing delimiter matches: one value, one tag, keys and tags
WellFormedBodies ==
    [command \in Commands |->
        IF command = PreambleCommand THEN {<<NumberLexeme>>, <<IdentLexeme>>}
        ELSE IF command = AbbrevCommand
        THEN BodiesOf({<<<<IdentLexeme, <<"=">>, v>>>> :
                          v \in {NumberLexeme, IdentLexeme, BracedLexeme}})
        ELSE StmtBodies(KeyStmts \cup LetterTagStmts, MaxStmts)]

\* the declarations whose only defect is the closing delimiter
MismatchTexts ==
    [command \in Commands |->
        {DeclText(command, opener, items, WrongCloser(opener)) :
            opener \in Openers, items \in WellFormedBodies[command]}]

DeclKind(command) ==
    IF command = PreambleCommand THEN "PreambleDecl"
    ELSE IF command = AbbrevCommand THEN "AbbrevDecl"
    ELSE "BibDecl"

\* C5: for a preamble, an abbreviation and an entry whose closing delimiter
\* is the one of the other opener, ParseFile does not panic and returns at
\* least one diagnostic, the node of the declaration is the first of
\* File.Entries, and a following entry is parsed as the second.
C5_DelimiterMismatch ==
    \A command \in Commands :
        /\ text \in MismatchTexts[command]
              => /\ pc \notin {"panic", "diverge"}
                 /\ pc = "done"
                       => /\ Len(p.errors) >= 1
                          /\ Len(f.Entries) = 1
                          /\ f.Entries[1].kind = DeclKind(command)
        /\ (HasFollower(text) /\ WithoutFollower(text) \in MismatchTexts[command])
              => /\ pc \notin {"panic", "diverge"}
                 /\ pc = "done"
                       => /\ Len(p.errors) >= 1
                          /\ Len(f.Entries) = 2
                          /\ f.Entries[1].kind = DeclKind(command)
                          /\ IsFollowerDecl(f.Entries[2])

\* an abbreviation opened by '{' and closed by ')' has been parsed, and the
\* entry after it too
C5_Witness ==
    /\ pc = "done"
    /\ text = DeclText(AbbrevCommand, <<"{">>,
                       <<IdentLexeme, <<"=">>, NumberLexeme>>, <<")">>)
                 \o Follower
    /\ Len(f.Entries) = 2
    /\ Len(p.errors) >= 1

\* the sequences of statements with a tag whose name is a number
DigitTagSeqs ==
    {stmts \in SeqsUpTo(Stmts, MaxStmts) :
        \E i \in 1..Len(stmts) : stmts[i] \in DigitTagStmts}

\* the sequences of keys and well-formed tags with a key that is a number
DigitKeySeqs ==
    {stmts \in SeqsUpTo(KeyStmts \cup LetterTagStmts, MaxStmts) :
        \E i \in 1..Len(stmts) : stmts[i] = <<NumberLexeme>>}

DigitTagTexts ==
    {DeclText(EntryCommand, opener, items, closer) \o tail :
        opener \in Openers, closer \in Closers,
        items \in BodiesOf(DigitTagSeqs), tail \in Tails}

DigitKeyTexts ==
    {DeclText(EntryCommand, opener, items, RightCloser(opener)) \o tail :
        opener \in Openers, items \in BodiesOf(DigitKeySeqs),
        tail \in {<<>>, Follower}}

\* C6: for an entry with a tag whose name is a number ParseFile returns with
\* at least one diagnostic; for a well-formed entry with a key that is a
\* number it returns without any.
C6_DigitTagAndKey ==
    /\ text \in DigitTagTexts
          => /\ pc \notin {"panic", "diverge"}
             /\ pc = "done" => Len(p.errors) >= 1
    /\ text \in DigitKeyTexts
          => /\ pc \notin {"panic", "diverge"}
             /\ pc = "done" => p.errors = <<>>

\* an entry with the key 1 and the tag 1 = {x} has been parsed and the tag
\* name has been reported
C6_Witness ==
    /\ pc = "done"
    /\ text = DeclText(EntryCommand, <<"{">>,
                       <<NumberLexeme, <<",">>, NumberLexeme, <<"=">>,
                         BracedLexeme>>, <<"}">>)
    /\ \E i \in 1..Len(p.errors) :
          p.errors[i].msg = "tag keys must not start with a number"
    /\ f.Entries[1].Key.Name = NumberLexeme

-----------------------------------------------------------------------------
(* ParseFile called with deep string parsing on an entry with one tag      *)
(* whose value is a quoted or a braced string, terminated or not.          *)

\* the most characters between the delimiters of the value
MaxText == 4

TextAlphabet == {"a", "{", "}", " ", ",", "\"", "$", "\\"}

TextDelims == {<<"\"", "\"">>, <<"{", "}">>}

\* an entry whose tag t has the value opened by delims[1], with the body
\* body, closed by delims[2]
ValueText(delims, body) ==
    <<"@", "a", "b", "{", "k", ",", "t", "=">>
        \o <<delims[1]>> \o body \o <<delims[2]>> \o <<"}">>

InitText ==
    \E delims \in TextDelims, body \in SeqsUpTo(TextAlphabet, MaxText) :
       ParseFileCalled(ValueText(delims, body), {"ParseStrings"})

SpecText == InitText /\ [][NextParse]_vars

-----------------------------------------------------------------------------
(* Claims about deep string parsing, checked under SpecText.               *)

TextFamily ==
    {"Text", "TextSpace", "TextComma", "TextMath", "TextHyphen", "TextNBSP",
     "TextMacro", "TextEscaped"}

\* txt is a ParsedText of the depth depth whose children are texts or
\* ParsedTexts nested one deeper, and so on below
RECURSIVE DepthsNested(_, _)
DepthsNested(txt, depth) ==
    /\ txt.Depth = depth
    /\ \A i \in 1..Len(txt.Values) :
          LET child == txt.Values[i]
          IN \/ child.kind \in TextFamily
             \/ child.kind = "ParsedText" /\ DepthsNested(child, depth + 1)

\* C11: when ParseFile with deep string parsing has returned without a
\* diagnostic, every ParsedText that is the value of a tag has the depth 0,
\* and each child of a ParsedText is a text node or a ParsedText one deeper
\* than its parent, whether the value is quoted or braced.
C11_BraceDepth ==
    (pc = "done" /\ p.errors = <<>>)
       => \A i \in 1..Len(f.Entries) :
             f.Entries[i].kind = "BibDecl"
                => \A j \in 1..Len(f.Entries[i].Tags) :
                      LET val == f.Entries[i].Tags[j].Value
                      IN val.kind = "ParsedText" => DepthsNested(val, 0)

\* a quoted value holding a braced group that holds a braced group has been
\* parsed without a diagnostic
C11_Witness ==
    /\ pc = "done"
    /\ p.errors = <<>>
    /\ text = ValueText(<<"\"", "\"">>, <<"{", "{", "}", "}">>)
    /\ LET val == f.Entries[1].Tags[1].Value
       IN /\ val.Delim = "Quote"
          /\ val.Values[1].kind = "ParsedText"
          /\ val.Values[1].Values[1].kind = "ParsedText"
          /\ val.Values[1].Values[1].Depth = 2

-----------------------------------------------------------------------------
(* ParseFile called on a file of well-formed entries followed by the start *)
(* of something and then by illegal characters, on one line or on a line   *)
(* each.                                                                   *)

\* the most illegal characters
MaxIllegal == 13

\* what the illegal characters follow: nothing, a name, the opener of an
\* entry, the `=` of a tag
LexHeads ==
    {<<>>, <<"k", " ">>, <<"@", "a", "b", "{", " ">>,
     <<"@", "a", "b", "{", "k", ",", "t", "=", " ">>}

InitLex ==
    \E before \in 0..MaxGood, head \in LexHeads, n \in 0..MaxIllegal,
       sep \in {" ", "\n"}, m \in {{}, {"AllErrors"}} :
          ParseFileCalled(Repeat(GoodLine, before) \o head
                             \o Repeat(<<"~", sep>>, n), m)

SpecLex == InitLex /\ [][NextParse]_vars

-----------------------------------------------------------------------------
(* Claims about the list of diagnostics, checked under SpecLex.            *)

\* C12: without AllErrors no two diagnostics recorded one after the other
\* are on the same line, whether the scanner or the parser reported them;
\* with AllErrors every diagnostic the parser reports is recorded.
C12_SameLineDiscarded ==
    (pc \notin {"ParseFile", "done"} /\ p.halt = "")
       => IF "AllErrors" \in mode
          THEN \A off \in 0..Len(text) :
                  Len(parserError(p, Pos(off), "expected", {}).errors)
                     = Len(p.errors) + 1
          ELSE \A i \in 1..(Len(p.errors) - 1) :
                  p.errors[i].line # p.errors[i + 1].line

\* C13: without AllErrors ParseFile returns at most 11 diagnostics; with
\* AllErrors the parse is never given up because of their number.
C13_AtMostEleven ==
    /\ (pc = "done" /\ "AllErrors" \notin mode) => Len(p.errors) <= 11
    /\ "AllErrors" \in mode => p.halt # "bailout"

-----------------------------------------------------------------------------
(* The extraction of authors.  A Go string is a sequence of characters; a  *)
(* call that panics has the value Panic, and so has everything built from  *)
(* the value of such a call.                                               *)

authorSep == <<"a", "n", "d">>

Panic == <<"panic">>

\* strings.Builder.WriteString
WriteString(sb, val) == IF sb = Panic \/ val = Panic THEN Panic ELSE sb \o val

WhiteSpace == {" ", "\t", "\n", "\r"}

\* strings.TrimSpace
RECURSIVE TrimSpace(_)
TrimSpace(str) ==
    IF str = <<>> THEN str
    ELSE IF str[1] \in WhiteSpace THEN TrimSpace(Tail(str))
    ELSE IF str[Len(str)] \in WhiteSpace
    THEN TrimSpace(SubSeq(str, 1, Len(str) - 1))
    ELSE str

\* the number of nodes TextSpace that xs begins with
RECURSIVE LeadingSpaces(_)
LeadingSpaces(xs) ==
    IF xs # <<>> /\ xs[1].kind = "TextSpace" THEN 1 + LeadingSpaces(Tail(xs))
    ELSE 0

\* the number of nodes TextSpace that xs ends with
RECURSIVE TrailingSpaces(_)
TrailingSpaces(xs) ==
    IF xs # <<>> /\ xs[Len(xs)].kind = "TextSpace"
    THEN 1 + TrailingSpaces(SubSeq(xs, 1, Len(xs) - 1))
    ELSE 0

\* trimSpaces
trimSpaces(xs) ==
    LET lo == LeadingSpaces(xs)
        hi == Len(xs) - TrailingSpaces(xs)
    IN IF hi <= lo THEN <<>> ELSE SubSeq(xs, lo + 1, hi)

\* hasUpperPrefix: the first rune of the empty string is RuneError
hasUpperPrefix(str) == str # <<>> /\ str[1] \in UpperLetters

\* accentMap
accentMap ==
    {<<"`", c>> : c \in {"a", "e", "i", "o", "u", "A", "E", "I", "O", "U"}}
      \cup {<<"'", c>> : c \in {"a", "e", "i", "o", "u", "y",
                                "A", "E", "I", "O", "U", "Y"}}
      \cup {<<"^", c>> : c \in {"a", "e", "i", "o", "u", "A", "E", "I", "O", "U"}}
      \cup {<<"\"", c>> : c \in {"a", "e", "i", "o", "u", "A", "E", "I", "O", "U"}}
      \cup {<<"~", c>> : c \in {"a", "n", "o", "A", "N", "O"}}
      \cup {<<"c", c>> : c \in {"c", "C"}}
      \cup {<<".", c>> : c \in {"c", "e", "g", "i", "z", "C", "E", "G", "I", "Z"}}

\* RenderAccent: the accented letter is written as the accent and the letter;
\* Panic stands for the error returned, on which parseDefault panics
RenderAccent(accent, str) ==
    IF Len(str) # 1 \/ accent = NUL \/ <<accent, str[1]>> \notin accentMap
    THEN Panic
    ELSE <<accent, str[1]>>

\* parseDefault
RECURSIVE parseDefault(_, _)
RECURSIVE parseDefaultLoop(_, _, _)
parseDefaultLoop(values, i, sb) ==
    IF i >= Len(values) THEN sb
    ELSE parseDefaultLoop(values, i + 1, WriteString(sb, parseDefault(i, values)))

parseDefault(idx, xs) ==
    LET x == xs[idx + 1] IN
    CASE x.kind = "ParsedText" -> parseDefaultLoop(x.Values, 0, <<>>)
      [] x.kind = "TextComma" -> <<",">>
      [] x.kind = "TextEscaped" -> <<"\\">> \o x.Value
      [] x.kind = "TextHyphen" -> <<"-">>
      [] x.kind \in {"TextNBSP", "TextSpace"} -> <<" ">>
      [] x.kind = "TextMath" -> <<"$">> \o x.Value \o <<"$">>
      [] x.kind = "Text" -> x.Value
      [] x.kind = "TextAccent" -> RenderAccent(x.Accent, x.Text.Value)
      [] OTHER -> Panic

\* what a parse*Name function returns with the action resolveContinue
resolveContinue(val) == [val |-> val, action |-> "resolveContinue"]

\* what a parse*Name function returns with the action resolveNextPart
resolveNextPart == [val |-> <<>>, action |-> "resolveNextPart"]

\* a plausible slip: a braced group in lower case ends the first name
parseFirstNameByCase(idx, xs) ==
    LET x == xs[idx + 1] IN
    IF x.kind = "ParsedText" /\ ~hasUpperPrefix(parseDefault(idx, xs))
    THEN resolveNextPart
    ELSE IF x.kind # "Text" THEN resolveContinue(parseDefault(idx, xs))
    ELSE resolveContinue(x.Value)

\* parseFirstName
parseFirstName(idx, xs) ==
    LET x == xs[idx + 1] IN
    IF /\ x.kind = "TextSpace"
       /\ idx < Len(xs) - 1
       /\ xs[idx + 2].kind = "Text"
       /\ ~hasUpperPrefix(xs[idx + 2].Value)
    THEN resolveNextPart
    ELSE IF x.kind # "Text" THEN resolveContinue(parseDefault(idx, xs))
    ELSE resolveContinue(x.Value)

\* parsePrefixName
parsePrefixName(idx, xs) ==
    LET x == xs[idx + 1] IN
    IF x.kind # "Text" THEN resolveContinue(parseDefault(idx, xs))
    ELSE IF hasUpperPrefix(x.Value) THEN resolveNextPart
    ELSE resolveContinue(x.Value)

\* parseLastName
parseLastName(idx, xs) == resolveContinue(parseDefault(idx, xs))

\* the loop that builds the first name, from idx on; lastToLast tells
\* whether the last node is left to the last name (resolveAuthor0) or not
\* (resolveAuthorN)
RECURSIVE firstLoop(_, _, _, _)
firstLoop(xs, idx, first, lastToLast) ==
    IF idx >= Len(xs) \/ (lastToLast /\ idx = Len(xs) - 1)
    THEN [idx |-> idx, sb |-> first]
    ELSE LET r == parseFirstName(idx, xs)
         IN IF r.action = "resolveNextPart" THEN [idx |-> idx, sb |-> first]
            ELSE firstLoop(xs, idx + 1, WriteString(first, r.val), lastToLast)

\* the loop that builds the prefix, from idx on
RECURSIVE prefixLoop(_, _, _)
prefixLoop(xs, idx, prefix) ==
    IF idx >= Len(xs) \/ idx = Len(xs) - 1 THEN [idx |-> idx, sb |-> prefix]
    ELSE LET r == parsePrefixName(idx, xs)
         IN IF r.action = "resolveNextPart" THEN [idx |-> idx, sb |-> prefix]
            ELSE prefixLoop(xs, idx + 1, WriteString(prefix, r.val))

\* the loop that builds the last name, from idx on
RECURSIVE lastLoop(_, _, _)
lastLoop(xs, idx, last) ==
    IF idx >= Len(xs) THEN [idx |-> idx, sb |-> last]
    ELSE LET r == parseLastName(idx, xs)
         IN IF r.action = "resolveNextPart" THEN [idx |-> idx, sb |-> last]
            ELSE lastLoop(xs, idx + 1, WriteString(last, r.val))

\* ast.Author; each part is the Value of its Text
Author(first, prefix, last, suffix) ==
    [First |-> first, Prefix |-> prefix, Last |-> last, Suffix |-> suffix]

\* resolveAuthor0
resolveAuthor0(xs) ==
    LET first == firstLoop(xs, 0, <<>>, TRUE)
        prefix == prefixLoop(xs, first.idx, <<>>)
        last == lastLoop(xs, prefix.idx, <<>>)
    IN Author(TrimSpace(first.sb), TrimSpace(prefix.sb), TrimSpace(last.sb), <<>>)

\* the suffix built by resolveAuthorN: the first node after the first comma
suffixOf(xs, commas) ==
    IF Len(commas) > 1
    THEN parseDefault(0, SubSeq(xs, commas[1] + 2, Len(xs)))
    ELSE <<>>

\* resolveAuthorN; commas holds the indices, from 0, of the commas of xs
resolveAuthorN(xs, commas) ==
    LET part1 == SubSeq(xs, 1, commas[1])
        prefix == prefixLoop(part1, 0, <<>>)
        last == lastLoop(part1, prefix.idx, <<>>)
        part2 == IF Len(commas) > 1 THEN SubSeq(xs, commas[2] + 2, Len(xs))
                 ELSE SubSeq(xs, commas[1] + 2, Len(xs))
        first == firstLoop(part2, 0, <<>>, FALSE)
    IN Author(TrimSpace(first.sb), TrimSpace(prefix.sb), TrimSpace(last.sb),
              TrimSpace(suffixOf(xs, commas)))

\* findCommas
RECURSIVE findCommasFrom(_, _)
findCommasFrom(xs, i) ==
    IF i >= Len(xs) THEN <<>>
    ELSE (IF xs[i + 1].kind = "TextComma" THEN <<i>> ELSE <<>>)
            \o findCommasFrom(xs, i + 1)

findCommas(xs) == findCommasFrom(xs, 0)

\* extractAuthor
extractAuthor(xs0) ==
    LET xs == trimSpaces(xs0)
        commas == findCommas(xs)
    IN IF Len(commas) = 0 THEN resolveAuthor0(xs) ELSE resolveAuthorN(xs, commas)

\* the call of extractAuthor has panicked
Panicked(a) == Panic \in {a.First, a.Prefix, a.Last, a.Suffix}

\* Author.IsEmpty: all four parts are empty
IsEmpty(a) ==
    a.First = <<>> /\ a.Prefix = <<>> /\ a.Last = <<>> /\ a.Suffix = <<>>

\* aExprs made over the array of txt.Values
ExtractionInPlace(txt) ==
    [values |-> txt.Values, exprs |-> <<>>, array |-> "values", len |-> 0,
     authors |-> <<>>]

\* The memory ExtractAuthors works on: the array of txt.Values, the array
\* exprs made for aExprs, the slice aExprs (its array and its length) and
\* the authors.  The array of aExprs never grows in place of another one.
Extraction(txt) ==
    [values |-> txt.Values, exprs |-> <<>>, array |-> "exprs", len |-> 0,
     authors |-> <<>>]

\* the nodes of the slice aExprs
aExprs(e) == SubSeq(e[e.array], 1, e.len)

\* aExprs = append(aExprs, v)
appendExpr(e, v) ==
    [e EXCEPT ![e.array] = IF e.len < Len(@) THEN [@ EXCEPT ![e.len + 1] = v]
                           ELSE Append(@, v),
              !.len = @ + 1]

\* what ExtractAuthors returns: a nil list is the empty list, a nil error is
\* the empty message; values is what has become of txt.Values
Returned(e, authors, err, panic) ==
    [authors |-> authors, err |-> err, panic |-> panic, values |-> e.values]

\* the loop of ExtractAuthors over txt.Values, of which there are n, from
\* the i-th on, and what follows the loop
RECURSIVE ExtractAuthorsLoop(_, _, _)
ExtractAuthorsLoop(e, i, n) ==
    LET a == extractAuthor(aExprs(e)) IN
    IF i > n
    THEN IF Panicked(a) THEN Returned(e, <<>>, "", TRUE)
         ELSE IF IsEmpty(a) THEN Returned(e, <<>>, "found an empty author", FALSE)
         ELSE Returned(e, Append(e.authors, a), "", FALSE)
    ELSE LET v == e.values[i] IN
         IF v.kind = "Text" /\ v.Value = authorSep
         THEN IF Panicked(a) THEN Returned(e, <<>>, "", TRUE)
              ELSE IF IsEmpty(a)
              THEN Returned(e, <<>>, "found an empty author", FALSE)
              ELSE ExtractAuthorsLoop([e EXCEPT !.authors = Append(@, a),
                                                !.len = 0], i + 1, n)
         ELSE ExtractAuthorsLoop(appendExpr(e, v), i + 1, n)

\* ExtractAuthors
ExtractAuthors(txt) == ExtractAuthorsLoop(Extraction(txt), 1, Len(txt.Values))

-----------------------------------------------------------------------------
(* ParseExpr and then ExtractAuthors, twice, on the ParsedText returned.   *)

\* ParseExpr(str)
ParseExprCall ==
    /\ pc = "ParseExpr"
    /\ p' = [p_parseExpr(p_next(init(p, <<"=">> \o text, {"ParseStrings"})))
                EXCEPT !.errors = ErrorListSort(@)]
    /\ f' = IF p'.halt = "" /\ p'.errors = <<>> THEN p'.ret ELSE Nil
    /\ pc' = Continue(p', "ExtractAuthors")
    /\ UNCHANGED <<text, mode, decls, out, walk, file>>

\* ExtractAuthors(txt) on the ParsedText that ParseExpr has returned
ExtractAuthorsCall ==
    /\ pc = "ExtractAuthors"
    /\ f.kind = "ParsedText"
    /\ Len(out) < 2
    /\ LET r == ExtractAuthors(f)
       IN /\ out' = Append(out, [authors |-> r.authors, err |-> r.err,
                                 panic |-> r.panic])
          /\ f' = [f EXCEPT !.Values = r.values]
          /\ pc' = IF r.panic THEN "panic" ELSE pc
    /\ UNCHANGED <<text, mode, p, decls, walk, file>>

NextAuthors ==
    \/ ParseExprCall
    \/ ExtractAuthorsCall

\* the state in which ParseExpr is called on the string str
ParseExprCalled(str) ==
    /\ text = str
    /\ mode = {"ParseStrings"}
    /\ p = Scanner(<<>>, {})
    /\ pc = "ParseExpr"
    /\ decls = <<>>
    /\ f = Nil
    /\ out = <<>>
    /\ walk = [stack |-> <<>>, calls |-> <<>>, done |-> FALSE, err |-> "nil"]
    /\ file = AddFile(1, -1, Len(text) + 1)

-----------------------------------------------------------------------------
(* ParseExpr called on a braced list of names made of words, spaces,       *)
(* commas, separators, a braced group and a macro.                         *)

\* the most items in the list of names
MaxAuthorItems == 5

UpperWord == <<"A">>

LowerWord == <<"b">>

Separator == <<" ", "a", "n", "d", " ">>

BracedGroup == <<"{", "b", ",", " ", "a", "n", "d", " ", "A", "}">>

MacroItem == <<"\\", "m">>

AuthorItems ==
    {UpperWord, LowerWord, <<" ">>, <<",">>, Separator, BracedGroup, MacroItem}

RECURSIVE Concat(_)
Concat(items) == IF items = <<>> THEN <<>> ELSE Head(items) \o Concat(Tail(items))

NamesText(items) == <<"{">> \o Concat(items) \o <<"}">>

InitAuthors ==
    \E items \in SeqsUpTo(AuthorItems, MaxAuthorItems) :
       ParseExprCalled(NamesText(items))

SpecAuthors == InitAuthors /\ [][NextAuthors]_vars

-----------------------------------------------------------------------------
(* Claims about the extraction of authors, checked under SpecAuthors.      *)

IsSeparator(x) == x.kind = "Text" /\ x.Value = authorSep

\* the runs of the nodes xs between the separators; run is the run so far
RECURSIVE RunsFrom(_, _)
RunsFrom(xs, run) ==
    IF xs = <<>> THEN <<run>>
    ELSE IF IsSeparator(Head(xs)) THEN <<run>> \o RunsFrom(Tail(xs), <<>>)
    ELSE RunsFrom(Tail(xs), Append(run, Head(xs)))

Runs(xs) == RunsFrom(xs, <<>>)

\* the authors of the runs before the first run that gives an empty author
RECURSIVE ResolvedBefore(_)
ResolvedBefore(runs) ==
    IF runs = <<>> \/ IsEmpty(extractAuthor(Head(runs))) THEN <<>>
    ELSE <<extractAuthor(Head(runs))>> \o ResolvedBefore(Tail(runs))

HasEmptyRun(xs) ==
    \E i \in 1..Len(Runs(xs)) : IsEmpty(extractAuthor(Runs(xs)[i]))

Stringified(xs) == parseDefaultLoop(xs, 0, <<>>)

\* the nodes of xs from the index from up to, not including, the index to,
\* indices counted from 0
Slice(xs, from, to) == SubSeq(xs, from + 1, to)

StartsLower(x) ==
    x.kind = "Text" /\ x.Value # <<>> /\ x.Value[1] \in LowerLetters

StartsUpper(x) ==
    x.kind = "Text" /\ x.Value # <<>> /\ x.Value[1] \in UpperLetters

\* the index of the first node of xs, from the index from on, that
\* satisfies Ends or is the last node of xs
EndOfPart(xs, from, Ends(_)) ==
    IF xs = <<>> THEN 0
    ELSE CHOOSE i \in from..(Len(xs) - 1) :
            /\ Ends(xs[i + 1]) \/ i = Len(xs) - 1
            /\ \A j \in from..(i - 1) : ~Ends(xs[j + 1])

\* the value ParseExpr has returned is one run of nodes, trimmed to TheRun
SingleRun == \A i \in 1..Len(f.Values) : ~IsSeparator(f.Values[i])

TheRun == trimSpaces(f.Values)

\* First, Prefix and Last of the run xs without a comma: First up to the
\* first word in lower case, Prefix up to the first word in upper case,
\* Last the rest, which holds the last node
FirstPrefixLast(xs) ==
    LET firstEnd == EndOfPart(xs, 0, StartsLower)
        prefixEnd == EndOfPart(xs, firstEnd, StartsUpper)
    IN Author(TrimSpace(Stringified(Slice(xs, 0, firstEnd))),
              TrimSpace(Stringified(Slice(xs, firstEnd, prefixEnd))),
              TrimSpace(Stringified(Slice(xs, prefixEnd, Len(xs)))),
              <<>>)

BeforeCommas(xs) == Slice(xs, 0, findCommas(xs)[1])

\* the nodes of the run xs after its second comma, or after its only one
AfterCommas(xs) ==
    LET commas == findCommas(xs)
    IN Slice(xs, (IF Len(commas) > 1 THEN commas[2] ELSE commas[1]) + 1, Len(xs))

\* the nodes of the run xs between its first and its second comma
BetweenCommas(xs) ==
    LET commas == findCommas(xs)
    IN Slice(xs, commas[1] + 1, commas[2])

GroupsOf(xs) == {i \in 0..(Len(xs) - 1) : xs[i + 1].kind = "ParsedText"}

\* the runs of the value ParseExpr has returned, each trimmed
TrimmedRuns == [i \in 1..Len(Runs(f.Values)) |-> trimSpaces(Runs(f.Values)[i])]

GroupString == <<"b", ",", " ", "a", "n", "d", " ", "A">>

-----------------------------------------------------------------------------
(* Walk.  A node of the tree walked is named by its path from the root,    *)
(* the sequence of the indices of the children taken.  walk.stack holds    *)
(* the calls of walkHelper that have not returned, the innermost last:     *)
(* the path of the node, the number i of its children already walked, and  *)
(* where the call is: about to call the walker on entering, walking the    *)
(* children, or about to call the walker on leaving.  walk.calls holds the *)
(* calls of the walker made so far with what the walker returned.          *)

WalkStatus == {"WalkStop", "WalkContinue", "WalkSkipChildren"}

\* the children walkHelper descends into, by the type of the node
Children(n) ==
    CASE n.kind = "File" -> n.Entries
      [] n.kind = "Package" -> n.Files
      [] n.kind = "BibDecl" -> n.Tags
      [] n.kind = "PreambleDecl" -> <<n.Text>>
      [] n.kind = "ParsedText" -> n.Values
      [] n.kind = "ConcatExpr" -> <<n.X, n.Y>>
      [] n.kind = "MacroText" -> n.Values
      [] OTHER -> <<>>

\* the node at the path path below the node n
RECURSIVE NodeAt(_, _)
NodeAt(n, path) ==
    IF path = <<>> THEN n ELSE NodeAt(Children(n)[Head(path)], Tail(path))

\* the walk goes on after the status WalkStop
StopsOnError(st, err) == err # "nil"

\* st == WalkStop || err != nil
Stops(st, err) == st = "WalkStop" \/ err # "nil"

\* the children are walked whatever the status is
DescendsAlways(st) == TRUE

\* st1 != WalkSkipChildren
Descends(st) == st # "WalkSkipChildren"

Frame(path, at, i) == [path |-> path, at |-> at, i |-> i]

\* walkHelper from the loop over the children on, up to the next call of
\* the walker: the innermost call walks its next child or, having none
\* left, goes on to leave its node
NextCall(stack) ==
    LET top == stack[Len(stack)]
        rest == SubSeq(stack, 1, Len(stack) - 1)
    IN IF top.i < Len(Children(NodeAt(f, top.path)))
       THEN rest \o <<Frame(top.path, "children", top.i + 1),
                      Frame(Append(top.path, top.i + 1), "enter", 0)>>
       ELSE rest \o <<Frame(top.path, "leave", top.i)>>

\* a call of the walker and what it returned
Called(path, isEntering, st, err) ==
    [path |-> path, isEntering |-> isEntering, st |-> st, err |-> err]

\* Walk(f, walker) up to the first call of the walker
WalkCall ==
    /\ pc = "done"
    /\ pc' = "Walk"
    /\ walk' = [walk EXCEPT !.stack = <<Frame(<<>>, "enter", 0)>>]
    /\ UNCHANGED <<text, mode, p, decls, f, out, file>>

\* the walker is called on entering a node and returns st and err;
\* walkHelper goes on to the next call of the walker or Walk returns
WalkerEntering ==
    /\ pc = "Walk"
    /\ walk.stack # <<>>
    /\ LET top == walk.stack[Len(walk.stack)]
           rest == SubSeq(walk.stack, 1, Len(walk.stack) - 1)
       IN /\ top.at = "enter"
          /\ \E st \in WalkStatus, err \in {"nil", "err"} :
                LET calls == Append(walk.calls, Called(top.path, TRUE, st, err))
                IN IF Stops(st, err)
                   THEN /\ walk' = [stack |-> <<>>, calls |-> calls,
                                    done |-> TRUE, err |-> err]
                        /\ pc' = "walked"
                   ELSE /\ walk' = [walk EXCEPT
                              !.calls = calls,
                              !.stack =
                                 IF Descends(st) THEN NextCall(walk.stack)
                                 ELSE rest \o <<Frame(top.path, "leave", 0)>>]
                        /\ pc' = pc
    /\ UNCHANGED <<text, mode, p, decls, f, out, file>>

\* the walker is called on leaving a node and returns st and err;
\* walkHelper returns to the walkHelper of the parent, which goes on to the
\* next call of the walker, or Walk returns
WalkerLeaving ==
    /\ pc = "Walk"
    /\ walk.stack # <<>>
    /\ LET top == walk.stack[Len(walk.stack)]
           rest == SubSeq(walk.stack, 1, Len(walk.stack) - 1)
       IN /\ top.at = "leave"
          /\ \E st \in WalkStatus, err \in {"nil", "err"} :
                LET calls == Append(walk.calls, Called(top.path, FALSE, st, err))
                IN IF Stops(st, err)
                   THEN /\ walk' = [stack |-> <<>>, calls |-> calls,
                                    done |-> TRUE, err |-> err]
                        /\ pc' = "walked"
                   ELSE IF rest = <<>>
                   THEN /\ walk' = [stack |-> <<>>, calls |-> calls,
                                    done |-> TRUE, err |-> "nil"]
                        /\ pc' = "walked"
                   ELSE /\ walk' = [walk EXCEPT !.calls = calls,
                                                !.stack = NextCall(rest)]
                        /\ pc' = pc
    /\ UNCHANGED <<text, mode, p, decls, f, out, file>>

NextWalk ==
    \/ NextParse
    \/ WalkCall
    \/ WalkerEntering
    \/ WalkerLeaving

\* the files walked: a concatenation of three strings, a braced string
\* with a nested group, an entry followed by a preamble, an empty file
WalkTexts ==
    {<<"@", "p", "r", "e", "a", "m", "b", "l", "e", "{",
       "\"", "a", "\"", "#", "\"", "b", "\"", "#", "\"", "c", "\"", "}">>,
     <<"@", "p", "r", "e", "a", "m", "b", "l", "e", "{",
       "{", "a", "{", "b", "}", "c", "}", "}">>,
     <<"@", "a", "b", "{", "k", ",", "t", "=", "{", "x", "}", "}",
       "@", "p", "r", "e", "a", "m", "b", "l", "e", "{", "{", "a", "}", "}">>,
     <<>>}

InitWalk ==
    \E src \in WalkTexts, m \in {{}, {"ParseStrings"}} : ParseFileCalled(src, m)

SpecWalk == InitWalk /\ [][NextWalk]_vars

\* path r is a proper ancestor of path q
IsAncestor(r, q) == Len(r) < Len(q) /\ SubSeq(q, 1, Len(r)) = r

\* the k-th call of the walker is the entering (the leaving) call on path r
IsCall(k, r, isEntering) ==
    walk.calls[k].path = r /\ walk.calls[k].isEntering = isEntering

\* the entering call k told the walk to skip the children
SkipsChildren(k) ==
    /\ walk.calls[k].isEntering
    /\ walk.calls[k].st = "WalkSkipChildren"
    /\ walk.calls[k].err = "nil"

C22_StopsAtOnce ==
    \A k \in 1..Len(walk.calls) :
       (walk.calls[k].st = "WalkStop" \/ walk.calls[k].err # "nil") =>
          /\ k = Len(walk.calls)
          /\ walk.done
          /\ walk.stack = <<>>
          /\ pc = "walked"
          /\ walk.err = walk.calls[k].err

\* the walker returned WalkStop without an error on leaving a node below
\* the root, whose ancestors and later siblings were still to be left and
\* entered
C22_Witness ==
    /\ walk.done
    /\ Len(walk.calls) > 2
    /\ LET c == walk.calls[Len(walk.calls)]
       IN /\ ~c.isEntering
          /\ c.st = "WalkStop"
          /\ c.err = "nil"
          /\ Len(c.path) >= 2
          /\ c.path[Len(c.path)] < Len(Children(NodeAt(f, SubSeq(c.path, 1, Len(c.path) - 1))))

-----------------------------------------------------------------------------
(* The scope of the file.                                                  *)

\* the names of the citation keys of the declaration d
CiteKeysOf(d) ==
    IF d.kind # "BibDecl" THEN {}
    ELSE (IF d.Key = Nil THEN {} ELSE {d.Key.Name})
            \cup {d.ExtraKeys[i].Name : i \in 1..Len(d.ExtraKeys)}

\* the names of the identifiers used in the expression x
RECURSIVE IdentsOf(_)
IdentsOf(x) ==
    IF x.kind = "Ident" THEN {x.Name}
    ELSE IF x.kind = "ConcatExpr" THEN IdentsOf(x.X) \cup IdentsOf(x.Y)
    ELSE {}

\* the names of the identifiers used in the values of the declaration d
UsedIn(d) ==
    IF d.kind = "PreambleDecl" THEN IdentsOf(d.Text)
    ELSE UNION {IdentsOf(TagStmtsOf(d)[i].Value) : i \in 1..Len(TagStmtsOf(d))}

\* C23: in the file ParseFile returns, every citation key of every entry is
\* in File.Scope, and File.Unresolved holds exactly the identifiers used in
\* the values of the file that are not in File.Scope.
C23_KeysInScope ==
    pc = "done" =>
       /\ \A i \in 1..Len(f.Entries) : CiteKeysOf(f.Entries[i]) \subseteq f.Scope
       /\ {f.Unresolved[i].Name : i \in 1..Len(f.Unresolved)}
             = UNION {UsedIn(f.Entries[i]) : i \in 1..Len(f.Entries)} \ f.Scope

-----------------------------------------------------------------------------
(* ParseFile called on one entry whose command is written in any mix of    *)
(* upper and lower case.                                                   *)

\* the most letters of the name of the command
MaxName == 3

CommandLetters == {"a", "A", "b", "B"}

\* what follows the command: a key, or a key and a tag
TypeBodies ==
    {<<"{", "k", ",", "}">>, <<"(", "k", ",", "t", "=", "1", ")">>}

InitType ==
    \E name \in SeqsUpTo(CommandLetters, MaxName) \ {<<>>},
       body \in TypeBodies, m \in {{}, {"ParseStrings"}} :
          ParseFileCalled(<<"@">> \o name \o body, m)

SpecType == InitType /\ [][NextParse]_vars

\* the letters at the start of the sequence cs
RECURSIVE LettersOf(_)
LettersOf(cs) ==
    IF cs = <<>> \/ ~isLetter(Head(cs)) THEN <<>>
    ELSE <<Head(cs)>> \o LettersOf(Tail(cs))

\* C24: the Type of the entry is the name of its command, without the '@',
\* in lower case.
C24_TypeLowerCase ==
    (pc = "done" /\ f.Entries # <<>> /\ f.Entries[1].kind = "BibDecl")
        => f.Entries[1].Type = ToLower(LettersOf(Tail(text)))

-----------------------------------------------------------------------------
(* ParseFile, without ParseStrings, called on a preamble or on an entry    *)
(* whose value is a concatenation of identifiers, numbers and quoted       *)
(* strings.                                                                *)

\* the most operands of the concatenation
MaxOperands == 4

Operands == {IdentLexeme, NumberLexeme, QuotedLexeme}

\* the operands xs with sep between them
RECURSIVE ConcatOf(_, _)
ConcatOf(xs, sep) ==
    IF Len(xs) = 1 THEN xs[1]
    ELSE xs[1] \o sep \o ConcatOf(Tail(xs), sep)

\* what stands before the expression
ConcatHeads ==
    {PreambleCommand \o <<"{">>, PreambleCommand \o <<"(", " ">>,
     EntryCommand \o <<"{", "k", ",", "t", "=">>}

ConcatSeps == {<<"#">>, <<" ", "#", " ">>}

ConcatText(head, xs, sep) ==
    head \o ConcatOf(xs, sep)
         \o (IF head[Len(head)] \in {"(", " "} THEN <<")">> ELSE <<"}">>)

InitConcat ==
    \E head \in ConcatHeads, sep \in ConcatSeps, m \in {{}, {"AllErrors"}} :
       \E xs \in SeqsUpTo(Operands, MaxOperands) \ {<<>>} :
          ParseFileCalled(ConcatText(head, xs, sep), m)

SpecConcat == InitConcat /\ [][NextParse]_vars

\* the node of the literal whose lexeme is x, without its position
LeafOf(x) ==
    IF x = IdentLexeme THEN [kind |-> "Ident", Name |-> x]
    ELSE IF x = NumberLexeme THEN [kind |-> "Number", Value |-> x]
    ELSE [kind |-> "UnparsedText", Type |-> "String",
          Value |-> SubSeq(x, 2, Len(x) - 1)]

\* the chain that leans to the right over the literals xs
RECURSIVE ChainOf(_)
ChainOf(xs) ==
    IF Len(xs) = 1 THEN LeafOf(xs[1])
    ELSE [kind |-> "ConcatExpr", X |-> LeafOf(xs[1]), Y |-> ChainOf(Tail(xs))]

\* the expression x without its positions
RECURSIVE Unpositioned(_)
Unpositioned(x) ==
    CASE x.kind = "ConcatExpr" ->
            [kind |-> "ConcatExpr", X |-> Unpositioned(x.X), Y |-> Unpositioned(x.Y)]
      [] x.kind = "Ident" -> [kind |-> "Ident", Name |-> x.Name]
      [] x.kind = "Number" -> [kind |-> "Number", Value |-> x.Value]
      [] x.kind = "UnparsedText" ->
            [kind |-> "UnparsedText", Type |-> x.Type, Value |-> x.Value]
      [] OTHER -> x

\* the value of the only declaration of the file
TheValue ==
    IF f.Entries[1].kind = "PreambleDecl" THEN f.Entries[1].Text
    ELSE f.Entries[1].Tags[1].Value

\* C25: without ParseStrings the expression l1 # l2 # ... # ln over
\* identifiers, numbers and quoted strings is parsed without a diagnostic to
\* the chain ConcatExpr(l1, ConcatExpr(l2, ... ln)), the leaves being the
\* literals in the order of the source.
C25_RightLeaning ==
    pc = "done" =>
       \A head \in ConcatHeads, sep \in ConcatSeps :
          \A xs \in SeqsUpTo(Operands, MaxOperands) \ {<<>>} :
             text = ConcatText(head, xs, sep) =>
                /\ p.errors = <<>>
                /\ Len(f.Entries) = 1
                /\ Unpositioned(TheValue) = ChainOf(xs)

\* a concatenation of three different literals has been parsed in an entry
C25_Witness ==
    /\ pc = "done"
    /\ text = ConcatText(EntryCommand \o <<"{", "k", ",", "t", "=">>,
                         <<QuotedLexeme, IdentLexeme, NumberLexeme>>,
                         <<" ", "#", " ">>)
    /\ Len(f.Entries) = 1
    /\ TheValue.kind = "ConcatExpr"
    /\ TheValue.Y.kind = "ConcatExpr"

-----------------------------------------------------------------------------
(* Termination of ParseFile, called on a value that is closed or not: a   *)
(* loop of the parser that the scanner, at the end of the source, can no   *)
(* longer end is the state "diverge", which no step leaves.                *)

\* the values: strings in quotes and in braces, with a macro \url or \href
\* or without, closed or not
OpenValues ==
    {<<"\"", "a", "\"">>, <<"\"", "a">>, <<"\"">>,
     <<"{", "a", "}">>, <<"{", "a">>, <<"{">>,
     <<"\"", "\\", "u", "r", "l", "{", "a", "}", "\"">>,
     <<"\"", "\\", "u", "r", "l", "{", "a">>,
     <<"{", "\\", "h", "r", "e", "f", "{", "a", "}", "}">>,
     <<"{", "\\", "h", "r", "e", "f", "{", "a">>,
     <<"{", "\\", "h", "r", "e", "f", "{", "a", " ">>}

OpenHeads ==
    {EntryCommand \o <<"{", "k", ",", "t", "=">>,
     EntryCommand \o <<"{", "k", ",", "u", "r", "l", "=">>,
     PreambleCommand \o <<"{">>}

InitOpen ==
    \E head \in OpenHeads, value \in OpenValues, tail \in {<<>>, <<"}">>},
       m \in {{}, {"ParseStrings"}, {"AllErrors"}} :
          ParseFileCalled(head \o value \o tail, m)

SpecOpen == InitOpen /\ [][NextParse]_vars

\* C26: ParseFile never runs forever, a quoted string and an argument of
\* \url or \href that are not closed before the end of the input included,
\* and the count of the returns of advance without progress never exceeds
\* 10.
C26_Terminates ==
    /\ pc # "diverge"
    /\ p.syncCnt <= 10

-----------------------------------------------------------------------------
(* The scanner driven on a brace string after '=', with any groups nested  *)
(* in it, closed or not, and anything after it.                            *)

\* the most bytes after the opening brace
MaxBrace == 7

BraceAlphabet == {"{", "}", "a"}

InitBrace ==
    \E body \in SeqsUpTo(BraceAlphabet, MaxBrace), m \in {{}, {"ScanStrings"}} :
       /\ text = <<"=", "{">> \o body
       /\ mode = m
       /\ p = ScannerInit(Scanner(<<>>, {}), text, mode)
       /\ pc = "scan"
       /\ decls = <<>>
       /\ f = [kind |-> "nil"]
       /\ out = <<>>
       /\ walk = [stack |-> <<>>, calls |-> <<>>, done |-> FALSE, err |-> "nil"]
       /\ file = AddFile(1, -1, Len(text))

SpecBrace == InitBrace /\ [][NextScan]_vars


\* the index of the '}' that balances the '{' before the index i of src, at
\* the depth depth of nested groups; 0 if there is none
RECURSIVE Balancing(_, _, _)
Balancing(src, i, depth) ==
    IF i > Len(src) THEN 0
    ELSE IF src[i] = "}" THEN (IF depth = 0 THEN i
                               ELSE Balancing(src, i + 1, depth - 1))
    ELSE IF src[i] = "{" THEN Balancing(src, i + 1, depth + 1)
    ELSE Balancing(src, i + 1, depth)

\* the index of the '{' the Scan call about to be made reads
OpenerIndex(s) == skipWhitespace(s).offset + 1

\* C27: without ScanStrings, a Scan call that reads a string-opening '{'
\* which a '}' balances returns a BraceString that ends right after that
\* '}' and whose literal is the text between the two braces, whatever the
\* groups nested in it.
C27_BalancedBraceString ==
    [][(/\ pc = "scan"
        /\ "ScanStrings" \notin p.mode
        /\ ScanChar(p) = "{"
        /\ p.tok \in {"Assign", "LBrace"}
        /\ Balancing(p.src, OpenerIndex(p) + 1, 0) # 0) =>
          LET open == OpenerIndex(p)
              close == Balancing(p.src, open + 1, 0)
          IN /\ p'.halt = ""
             /\ p'.tok = "BraceString"
             /\ p'.offset = close
             /\ p'.lit = SubSeq(p.src, open + 1, close - 1)]_vars

-----------------------------------------------------------------------------
(* A scanner that is used again: Init and Scan are called in any order.    *)
(* out holds the sources Init was called again with.                       *)

\* the most bytes of a source
MaxReuse == 4

\* the most calls of Init on a scanner in use
MaxInits == 2

ReuseAlphabet == {"=", "{", "}", "\"", "a"}

InitReuse ==
    \E src \in SeqsUpTo(ReuseAlphabet, MaxReuse), m \in {{}, {"ScanStrings"}} :
       /\ text = src
       /\ mode = m
       /\ p = ScannerInit(Scanner(<<>>, {}), text, mode)
       /\ pc = "scan"
       /\ decls = <<>>
       /\ f = [kind |-> "nil"]
       /\ out = <<>>
       /\ walk = [stack |-> <<>>, calls |-> <<>>, done |-> FALSE, err |-> "nil"]
       /\ file = AddFile(1, -1, Len(text))

\* Scanner.Init called again, on the same source, at any point of the scan
ScannerInitCall ==
    /\ pc = "scan"
    /\ p.halt = ""
    /\ Len(out) < MaxInits
    /\ p' = ScannerInit(p, text, mode)
    /\ out' = Append(out, text)
    /\ UNCHANGED <<text, mode, pc, decls, f, walk, file>>

NextReuse ==
    \/ ScanCall
    \/ ScannerInitCall

SpecReuse == InitReuse /\ [][NextReuse]_vars

\* C28: after every call of Init and of Scan the brace depth is not
\* negative, it is 0 when the scanner is not inside a string, and after
\* Init, on a scanner in use too, the scanner is not inside a string.
C28_BraceDepth ==
    [][/\ p'.braceDepth >= 0
       /\ ~InString(p') => p'.braceDepth = 0
       /\ out' # out => ~InString(p')]_vars

-----------------------------------------------------------------------------
(* ParseFile called on a preamble opened by '{' or by '(' whose body is an *)
(* expression with a brace string, and on an entry whose value is a brace  *)
(* string after a comment.                                                 *)

\* the expressions: literals, and concatenations with a brace string
ExprBodies ==
    {BracedLexeme, QuotedLexeme, IdentLexeme, NumberLexeme,
     IdentLexeme \o <<" ", "#", " ">> \o BracedLexeme,
     QuotedLexeme \o <<" ", "#", " ">> \o BracedLexeme,
     BracedLexeme \o <<" ", "#", " ">> \o IdentLexeme}

\* the closing delimiter of the opener
CloserOf(opener) == IF opener = <<"{">> THEN <<"}">> ELSE <<")">>

PreambleText(opener, pad, body) ==
    PreambleCommand \o opener \o pad \o body \o pad \o CloserOf(opener)

\* an entry whose value follows a comment on the line of the '='
CommentedText(opener) ==
    EntryCommand \o opener \o <<"k", ",", "t", "=", "%", "c", "\n">>
        \o BracedLexeme \o CloserOf(opener)

InitBody ==
    \E opener \in Openers, m \in {{}, {"ParseStrings"}} :
       \/ \E body \in ExprBodies, pad \in {<<>>, <<" ">>} :
             ParseFileCalled(PreambleText(opener, pad, body), m)
       \/ ParseFileCalled(CommentedText(opener), m)

SpecBody == InitBody /\ [][NextParse]_vars

\* the Text of the PreambleDecl that parsePreambleDecl returns for src
PreambleTextOf(src, m) ==
    p_parsePreambleDecl(init(Scanner(<<>>, {}), src, m)).ret.Text

StringKinds == {"UnparsedText", "ParsedText"}

\* C29: a preamble is parsed without a diagnostic to the same Text whether
\* it is opened by '{' or by '(', for every body, a brace string and a
\* brace string after '#' included; and the brace string that follows '='
\* after a comment is the value of the tag, a string.
C29_SameText ==
    pc = "done" =>
       /\ \A opener \in Openers, body \in ExprBodies, pad \in {<<>>, <<" ">>} :
             text = PreambleText(opener, pad, body) =>
                /\ p.errors = <<>>
                /\ Len(f.Entries) = 1
                /\ f.Entries[1].kind = "PreambleDecl"
                /\ \A other \in Openers :
                      f.Entries[1].Text
                         = PreambleTextOf(PreambleText(other, pad, body), mode)
       /\ \A opener \in Openers :
             text = CommentedText(opener) =>
                /\ p.errors = <<>>
                /\ Len(f.Entries) = 1
                /\ Len(f.Entries[1].Tags) = 1
                /\ f.Entries[1].Tags[1].Value.kind \in StringKinds

-----------------------------------------------------------------------------
(* A File of positions: made by NewFile or added to a file set, then       *)
(* AddLine is called with any offsets and Position with the Pos of any     *)
(* offset of the file.  out holds the last call of Position: the table of  *)
(* lines it was made on, the offset and the Position returned.             *)

\* the largest size of the file
MaxSize == 5

InitFile ==
    /\ \E size \in 0..MaxSize :
          \/ file = NewFile(size)
          \/ \E b \in {-1, 3} : file = AddFile(1, b, size)
    /\ text = <<>>
    /\ mode = {}
    /\ p = Scanner(<<>>, {})
    /\ pc = "file"
    /\ decls = <<>>
    /\ f = Nil
    /\ out = <<>>
    /\ walk = [stack |-> <<>>, calls |-> <<>>, done |-> FALSE, err |-> "nil"]

\* f.AddLine(offset)
AddLineCall ==
    /\ pc = "file"
    /\ \E offset \in (-1)..(MaxSize + 1) : file' = AddLine(file, offset)
    /\ UNCHANGED <<text, mode, p, pc, decls, f, out, walk>>

\* f.Position(f.Pos(offset)) for an offset of the file
PositionCall ==
    /\ pc = "file"
    /\ \E offset \in 0..file.size :
          out' = <<[lines |-> file.lines, offset |-> offset,
                    position |-> Position(file, FilePos(file, offset))]>>
    /\ UNCHANGED <<text, mode, p, pc, decls, f, walk, file>>

NextFile ==
    \/ AddLineCall
    \/ PositionCall

SpecFile == InitFile /\ [][NextFile]_vars

\* the number of the line starts of lines that are not beyond the offset o
LineStartsUpTo(lines, o) ==
    Cardinality({i \in 1..Len(lines) : lines[i] <= o})

\* the table of lines starts with 0, increases strictly, and every line
\* start that was added is below the size of the file
LinesOrdered ==
    /\ file.lines[1] = 0
    /\ \A i \in 2..Len(file.lines) :
          /\ file.lines[i - 1] < file.lines[i]
          /\ file.lines[i] < file.size

\* the Position returned by the call r is the one of the table of lines
PositionOf(r) ==
    /\ DOMAIN r.position = {"Offset", "Line", "Column"}
    /\ r.position.Offset = r.offset
    /\ r.position.Line >= 1
    /\ r.position.Line = LineStartsUpTo(r.lines, r.offset)
    /\ r.position.Column = r.offset - r.lines[r.position.Line] + 1

\* C30: after any calls of AddLine the table of lines starts with 0 and
\* increases strictly below the size of the file, and Position(Pos(o))
\* reports, for every offset o of the file, the offset o, as Line the number
\* of the line starts up to o, at least 1, and as Column the distance of o
\* from the start of that line plus 1.
C30_LineTable ==
    pc = "file" =>
       /\ LinesOrdered
       /\ out # <<>> => PositionOf(out[1])

=============================================================================
